---- MODULE Spec2Model ----
(***************************************************************************)
(* A model of the Nexus AMS Discord bot's queue core:                      *)
(*   - QueueWorker   (polling loop, fetch backoff, status retry ledger)    *)
(*   - QueueDispatcher.dispatch and its action handlers                    *)
(*   - QueueDispatcher.#withDiscordRetry (rate-limit aware retrier)        *)
(*   - ApiService.request (the transport retry of every API call)          *)
(*                                                                         *)
(* JavaScript runs the worker on one event loop.  A state of the model is  *)
(* a point where the loop is idle: every awaited network call is one step  *)
(* (the call's completion), and everything the code does synchronously     *)
(* after it, up to the next awaited call, belongs to the same step.        *)
(***************************************************************************)
EXTENDS Integers, Sequences, FiniteSets, Bags, TLC

VARIABLES
    now,                    \* Date.now(), in abstract time units
    pollTimer,              \* this.pollTimer: [set, at]
    orphanTimers,           \* pending timeouts this.pollTimer no longer references
    polling,                \* this.polling
    backoffAttempts,        \* this.backoffAttempts
    currentPollIntervalMs,  \* this.currentPollIntervalMs
    pendingStatusUpdates,   \* this.pendingStatusUpdates (a Map, in insertion order)
    cyc,                    \* the activations of #poll that are past the guard
    calls,                  \* history: the external calls of the latest poll cycle, in order
    last,                   \* history: the call completed last, with its outcome
    tick,                   \* what #poll did, when the last step was a timeout firing
    ctl,                    \* number of start()/stop() calls made so far
    netFails,               \* history: consecutive network-class fetch failures
    dsp,                    \* a single dispatch(command) run (SpecDispatch)
    rt,                     \* a single #withDiscordRetry run (SpecRetry)
    ck,                     \* a single #chunkDiscordMessage run (SpecChunk)
    api                     \* a single ApiService.request run (SpecApi)

workerVars == <<now, pollTimer, orphanTimers, polling, backoffAttempts,
                currentPollIntervalMs, pendingStatusUpdates, cyc, calls, last, tick,
                ctl, netFails>>
vars == <<now, pollTimer, orphanTimers, polling, backoffAttempts,
          currentPollIntervalMs, pendingStatusUpdates, cyc, calls, last, tick,
          ctl, netFails, dsp, rt, ck, api>>

(***************************************************************************)
(* Bounds of the model.                                                    *)
(***************************************************************************)
\* Date.now() runs from 0 to MaxNow.
MaxNow == 3
\* Queue item ids are 1..MaxId; id 0 stands for an absent (falsy) id.
MaxId == 2
\* The producer returns at most MaxBatch items per fetch.
MaxBatch == 2
\* At most MaxControl calls of start()/stop() are made.
MaxControl == 4
\* Activations of #poll that can be past the guard at once.
NumSlots == 2
\* The QueueWorker under check is constructed with these arguments
\* (part_007:109-111; the defaults are 30000, 300000 and 10000 ms).
pollIntervalMs == 1
maxBackoffMs == 3
statusBackoffBaseMs == 1

(***************************************************************************)
(* Arithmetic helpers.                                                     *)
(***************************************************************************)
Min(a, b) == IF a <= b THEN a ELSE b
Max(a, b) == IF a >= b THEN a ELSE b

RECURSIVE Pow2(_)
Pow2(n) == IF n <= 0 THEN 1 ELSE 2 * Pow2(n - 1)

(***************************************************************************)
(* Failures of an ApiService call, as #isNetworkError reads them: whether  *)
(* the thrown value is truthy and whether it carries .response, .code and  *)
(* .request.                                                               *)
(***************************************************************************)
ErrTransport == [truthy |-> TRUE, response |-> FALSE, code |-> TRUE, request |-> TRUE]
ErrHttp      == [truthy |-> TRUE, response |-> TRUE, code |-> TRUE, request |-> TRUE]
ErrPlain     == [truthy |-> TRUE, response |-> FALSE, code |-> FALSE, request |-> FALSE]
Errors == {ErrTransport, ErrHttp, ErrPlain}

\* Variant: a classification that looks only at code and request.
isNetworkErrorIgnoresResponse(error) ==
    IF ~error.truthy THEN FALSE
    ELSE error.code \/ error.request

\* #isNetworkError, part_007:295-305
isNetworkError(error) ==
    IF ~error.truthy THEN FALSE
    ELSE IF error.response THEN FALSE
    ELSE error.code \/ error.request

\* The outcome of an awaited ApiService call: resolved, or rejected with err.
Resolved == [ok |-> TRUE, err |-> ErrPlain]
Rejected(e) == [ok |-> FALSE, err |-> e]
ApiOutcomes == {Resolved} \cup {Rejected(e) : e \in Errors}
ResClass(o) == IF o.ok THEN "ok" ELSE IF isNetworkError(o.err) THEN "net" ELSE "other"

(***************************************************************************)
(* this.pendingStatusUpdates: a Map from id to a retry record, kept as the *)
(* sequence of its values in insertion order.                              *)
(***************************************************************************)
MapHas(m, id) == \E n \in 1..Len(m) : m[n].id = id
MapGet(m, id) == m[CHOOSE n \in 1..Len(m) : m[n].id = id]
MapDelete(m, id) == SelectSeq(m, LAMBDA r : r.id # id)

\* Variant: a ledger that appends where Map.prototype.set replaces.
MapSetAppend(m, id, rec) == Append(m, rec)

\* Map.prototype.set: replaces the value of an existing key in place.
MapSet(m, id, rec) ==
    IF MapHas(m, id)
    THEN [n \in 1..Len(m) |-> IF m[n].id = id THEN rec ELSE m[n]]
    ELSE Append(m, rec)

\* part_007:224
retryDelay(attempt) ==
    Min(statusBackoffBaseMs * Pow2(attempt - 1), maxBackoffMs)

\* Variant: an enqueue that ignores the status it is given.
enqueueStatusRetryKeepStatus(m, id, status) ==
    LET existing == IF MapHas(m, id) THEN MapGet(m, id).attempt ELSE 0
        attempt == existing + 1
        st == IF MapHas(m, id) THEN MapGet(m, id).status ELSE "complete"
    IN MapSet(m, id, [id |-> id, status |-> st, attempt |-> attempt,
                      nextAttemptAt |-> now + retryDelay(attempt)])

\* #enqueueStatusRetry(id, status), called when Date.now() = now
enqueueStatusRetry(m, id, status) ==
    LET existingAttempt == IF MapHas(m, id) THEN MapGet(m, id).attempt ELSE 0
        attempt == existingAttempt + 1
        delay == retryDelay(attempt)
    IN MapSet(m, id, [id |-> id, status |-> status, attempt |-> attempt,
                      nextAttemptAt |-> now + delay])

\* Variant: a flush that retries every record, due or not.
dueUpdatesAll(m) == m

\* Variant: a flush that goes through the due records twice.
dueUpdatesTwice(m) ==
    LET due == SelectSeq(m, LAMBDA update : update.nextAttemptAt <= now)
    IN due \o due

\* Variant: a flush that finds nothing due.
dueUpdatesNone(m) == <<>>

\* #flushPendingStatusUpdates, lines 239-246: the records due at Date.now()
dueUpdates(m) ==
    IF Len(m) = 0 THEN <<>>
    ELSE SelectSeq(m, LAMBDA update : update.nextAttemptAt <= now)

\* Variant: a flush that gives a record up after its second attempt.
flushOutcomeGiveUp(m, update, o) ==
    IF o.ok THEN MapDelete(m, update.id)
    ELSE IF isNetworkError(o.err) /\ update.attempt < 2
         THEN enqueueStatusRetry(m, update.id, update.status)
    ELSE MapDelete(m, update.id)

\* Variant: a flush that drops the record on every failure.
flushOutcomeDropOnNetwork(m, update, o) ==
    IF o.ok THEN MapDelete(m, update.id) ELSE MapDelete(m, update.id)

\* #flushPendingStatusUpdates, lines 249-266: one retried status call returns
flushOutcome(m, update, o) ==
    IF o.ok THEN MapDelete(m, update.id)
    ELSE IF isNetworkError(o.err) THEN enqueueStatusRetry(m, update.id, update.status)
    ELSE MapDelete(m, update.id)

\* Variant: a report that also schedules a retry for every failed dispatch.
reportOutcomeRetryFailed(m, id, status, o) ==
    IF o.ok THEN (IF status = "failed" THEN enqueueStatusRetry(m, id, status) ELSE m)
    ELSE IF isNetworkError(o.err) THEN enqueueStatusRetry(m, id, status)
    ELSE m

\* #reportStatus, lines 208-218: the status call made after a dispatch returns
reportOutcome(m, id, status, o) ==
    IF o.ok THEN m
    ELSE IF isNetworkError(o.err) THEN enqueueStatusRetry(m, id, status)
    ELSE m

(***************************************************************************)
(* Fetch backoff.                                                          *)
(***************************************************************************)
\* Variant: the interval computed from the attempts before the increment.
increaseBackoffOffByOne(attempts) ==
    [attempts |-> attempts + 1,
     interval |-> Min(pollIntervalMs * Pow2(attempts), maxBackoffMs)]

\* #increaseBackoff
increaseBackoff(attempts) ==
    [attempts |-> attempts + 1,
     interval |-> Min(pollIntervalMs * Pow2(attempts + 1), maxBackoffMs)]

\* Variant: a reset of the interval that keeps the attempt counter.
resetBackoffKeepsAttempts == [attempts |-> backoffAttempts, interval |-> pollIntervalMs]

\* #resetBackoff
resetBackoff == [attempts |-> 0, interval |-> pollIntervalMs]

(***************************************************************************)
(* Timers.  pollTimer.set says whether this.pollTimer is non-null;         *)
(* pollTimer.at is the deadline of the timeout it references while that    *)
(* timeout is pending, and -1 once it has fired or was cleared (the field  *)
(* keeps a stale handle: #poll never nulls it).                            *)
(***************************************************************************)
NoTimer == [set |-> FALSE, at |-> -1]

\* #scheduleNextPoll(delay): this.pollTimer = setTimeout(..., delay); a
\* pending timeout the field referenced before stays pending.
scheduleNextPoll(pt, orph, delay) ==
    [pt |-> [set |-> TRUE, at |-> now + delay],
     orph |-> IF pt.at >= 0 THEN orph (+) SetToBag({pt.at}) ELSE orph]

\* The timer states after one due timeout has fired.
AfterFire ==
    (IF pollTimer.at >= 0 /\ pollTimer.at <= now
        THEN {[pt |-> [pollTimer EXCEPT !.at = -1], orph |-> orphanTimers]}
        ELSE {})
    \cup {[pt |-> pollTimer, orph |-> orphanTimers (-) SetToBag({d})] :
             d \in {x \in BagToSet(orphanTimers) : x <= now}}

PendingTimers == BagCardinality(orphanTimers) + (IF pollTimer.at >= 0 THEN 1 ELSE 0)

(***************************************************************************)
(* JavaScript values, as far as dispatch reads them: the type typeof       *)
(* reports and the value's text.                                           *)
(***************************************************************************)
JsUndefined == [t |-> "undefined", s |-> ""]
JsNull == [t |-> "object", s |-> "null"]
JsNumber(n) == [t |-> "number", s |-> n]
JsObject == [t |-> "object", s |-> "{}"]
JsString(str) == [t |-> "string", s |-> str]

\* ToBoolean
JsTruthy(v) ==
    CASE v.t = "undefined" -> FALSE
      [] v.t = "string" -> v.s # ""
      [] v.t = "number" -> v.s \notin {"0", "NaN"}
      [] OTHER -> v.s # "null"

(***************************************************************************)
(* #withDiscordRetry: what it reads off a rejection and what it decides.   *)
(***************************************************************************)
\* maxAttempts = 3, the default every caller uses
defaultMaxAttempts == 3

\* What the rejection of operation() may carry in a retry_after property:
\* nothing (undefined or null), something Number() turns into NaN, or a
\* number of seconds, kept in microseconds.
Absent == [t |-> "absent", us |-> 0]
NotNumeric == [t |-> "nan", us |-> 0]
Seconds(us) == [t |-> "num", us |-> us]
DelaysUs == {0, 500000, 1000500, 2000000}

OpErrors ==
    {[retry_after |-> a, rawError |-> b, data |-> c] :
        a \in {Absent, NotNumeric} \cup {Seconds(us) : us \in DelaysUs},
        b \in {Absent, Seconds(2000000)},
        c \in {Absent, Seconds(1000500)}}
NoOpError == [retry_after |-> Absent, rawError |-> Absent, data |-> Absent]

OpOutcomes == {[ok |-> TRUE, err |-> NoOpError]} \cup {[ok |-> FALSE, err |-> e] : e \in OpErrors}

\* lines 974-975: error?.retry_after ?? error?.rawError?.retry_after
\*                ?? error?.data?.retry_after ?? NaN, through Number()
retryAfterSeconds(error) ==
    IF error.retry_after.t # "absent" THEN error.retry_after
    ELSE IF error.rawError.t # "absent" THEN error.rawError
    ELSE IF error.data.t # "absent" THEN error.data
    ELSE NotNumeric

\* Variant: the attempt test off by one, so the last attempt is retried too.
shouldRetryOnLast(attempt, maxAttempts, retryAfter) ==
    attempt <= maxAttempts /\ retryAfter.t = "num"

\* line 976
shouldRetry(attempt, maxAttempts, retryAfter) ==
    attempt < maxAttempts /\ retryAfter.t = "num"

\* Math.ceil(a / b) for b > 0
CeilDiv(a, b) == -((-a) \div b)

\* Variant: the wait without its floor of one second.
waitMsNoMinimum(retryAfter) == CeilDiv(retryAfter.us, 1000)

\* line 982: Math.max(Math.ceil(retryAfterSeconds * 1000), 1000)
waitMs(retryAfter) == Max(CeilDiv(retryAfter.us, 1000), 1000)

(***************************************************************************)
(* What a handler meets outside the process (the Discord client), and what *)
(* a handler's run leaves behind.                                          *)
(*   cached / fetched : the channel the cache holds / the remote fetch     *)
(*                      yields ("text", "forum", "category", "none";       *)
(*                      fetched may also be "throw")                       *)
(*   build            : whether building the artifact throws               *)
(*   send, later      : the outcome of the first platform send the handler *)
(*                      makes and of the sends after it: "ok", "throw" (a  *)
(*                      rejection without retry_after) or "limited" (a     *)
(*                      rejection with one); sends beyond these succeed    *)
(*   guildId, guild   : this.guildId is set; "cached", "fetched", "none",  *)
(*                      "throw"                                            *)
(*   member, roles, remove : member fetch, the role ids in the member's    *)
(*                      role cache, removal                                *)
(***************************************************************************)
ChannelKinds == {"text", "forum", "category"}
isTextBased(ch) == ch = "text"
isThreadOnly(ch) == ch = "forum"

\* The @everyone role, whose id is the guild's id (line 170).
EveryoneRole == "everyone"

\* What a handler did: cache lookups, remote fetches, platform sends (with
\* the sends in order in log), bulk role removals and the role ids removed.
NoEffects ==
    [lookups |-> 0, fetches |-> 0, sends |-> 0, removals |-> 0, log |-> <<>>,
     removed |-> {}]

\* An entry of log: the send (op, and its index among the sends of its
\* kind) and whether the optional part of what is sent came from the
\* payload (full) or was left out or defaulted.
Sent(op, idx, full) == [op |-> op, idx |-> idx, full |-> full]

\* A DispatchOutcome { success, reason? }
Outcome(success, reason) == [kind |-> "outcome", success |-> success, reason |-> reason]
Success == Outcome(TRUE, "none")
Failure(reason) == Outcome(FALSE, reason)

Returns(ret, fx) == [threw |-> FALSE, ret |-> ret, fx |-> fx]
Throws(fx) == [threw |-> TRUE, ret |-> Failure("thrown"), fx |-> fx]

\* The outcome of the n-th platform send of a handler's run.
platformCall(w, n) ==
    LET script == <<w.send>> \o w.later
    IN IF n <= Len(script) THEN script[n] ELSE "ok"

\* The error a send is rejected with.
rejection(outcome) ==
    IF outcome = "limited"
    THEN [retry_after |-> Seconds(2000000), rawError |-> Absent, data |-> Absent]
    ELSE NoOpError

\* #resolveChannel, lines 326-343
resolveChannel(w) ==
    IF w.cached # "none" /\ isTextBased(w.cached)
    THEN [channel |-> w.cached, lookups |-> 1, fetches |-> 0]
    ELSE IF w.fetched = "throw" THEN [channel |-> "none", lookups |-> 1, fetches |-> 1]
    ELSE IF w.fetched # "none" /\ isTextBased(w.fetched)
         THEN [channel |-> w.fetched, lookups |-> 1, fetches |-> 1]
    ELSE [channel |-> "none", lookups |-> 1, fetches |-> 1]

\* Variant: a resolver that asks the remote side before the cache.
resolveAnyChannelFetchFirst(w) ==
    IF w.fetched = "throw"
    THEN [channel |-> w.cached, lookups |-> 1, fetches |-> 1]
    ELSE [channel |-> w.fetched, lookups |-> 1, fetches |-> 1]

\* #resolveAnyChannel, lines 345-358
resolveAnyChannel(w) ==
    IF w.cached # "none"
    THEN [channel |-> w.cached, lookups |-> 1, fetches |-> 0]
    ELSE IF w.fetched = "throw" THEN [channel |-> "none", lookups |-> 1, fetches |-> 1]
    ELSE [channel |-> w.fetched, lookups |-> 1, fetches |-> 1]

\* #resolveGuild, lines 360-381
resolveGuild(w) ==
    IF ~w.guildId THEN [guild |-> FALSE, lookups |-> 0, fetches |-> 0]
    ELSE IF w.guild = "cached" THEN [guild |-> TRUE, lookups |-> 1, fetches |-> 0]
    ELSE IF w.guild = "fetched" THEN [guild |-> TRUE, lookups |-> 1, fetches |-> 1]
    ELSE [guild |-> FALSE, lookups |-> 1, fetches |-> 1]

\* Variant: one attempt, whatever the rejection carries.
discordRetryOnce(w, n, attempt, maxAttempts) ==
    [ok |-> platformCall(w, n + 1) = "ok", n |-> n + 1]

\* #withDiscordRetry(operation, label), lines 969-992, as a handler uses it:
\* n platform sends were made before; the result says whether the operation
\* succeeded in the end and how many sends were made by then.
RECURSIVE discordRetry(_, _, _, _)
discordRetry(w, n, attempt, maxAttempts) ==
    IF attempt > maxAttempts THEN [ok |-> TRUE, n |-> n]
    ELSE LET o == platformCall(w, n + 1)
         IN IF o = "ok" THEN [ok |-> TRUE, n |-> n + 1]
            ELSE IF ~shouldRetry(attempt, maxAttempts, retryAfterSeconds(rejection(o)))
                 THEN [ok |-> FALSE, n |-> n + 1]
            ELSE discordRetry(w, n + 1, attempt + 1, maxAttempts)

\* Variant: the channel is resolved before the payload is looked at.
handleChannelEmbedResolveFirst(command, w) ==
    LET r == resolveChannel(w)
        fx == [NoEffects EXCEPT !.lookups = r.lookups, !.fetches = r.fetches]
        sent == [fx EXCEPT !.sends = 1, !.log = <<Sent("send", 1, TRUE)>>]
    IN IF ~command.payload.channel_id THEN Returns(Failure("missing_channel"), fx)
       ELSE IF r.channel = "none" THEN Returns(Failure("channel_unavailable"), fx)
       ELSE IF w.build = "throw" THEN Throws(fx)
       ELSE IF w.send # "ok" THEN Returns(Failure("discord_send_failed"), sent)
       ELSE Returns(Success, sent)

\* Variant: an inactivity alert that insists on the user id.
handleChannelEmbedNeedsUser(command, w) ==
    IF ~command.payload.channel_id \/ ~command.payload.discord_user_id
    THEN Returns(Failure("missing_channel"), NoEffects)
    ELSE LET r == resolveChannel(w)
             fx == [NoEffects EXCEPT !.lookups = r.lookups, !.fetches = r.fetches]
             sent == [fx EXCEPT !.sends = 1, !.log = <<Sent("send", 1, TRUE)>>]
         IN IF r.channel = "none" THEN Returns(Failure("channel_unavailable"), fx)
            ELSE IF w.build = "throw" THEN Throws(fx)
            ELSE IF w.send # "ok" THEN Returns(Failure("discord_send_failed"), sent)
            ELSE Returns(Success, sent)

\* #handleWarAlert, #handleAllianceDeparture, #handleInactivityAlert
\* (lines 79-105, 51-77, 107-137): one shape, one embed sent to a channel
\* by channel.send in a try block; the inactivity alert adds the mention of
\* payload.discord_user_id when there is one (lines 124, 128, 581-587).
handleChannelEmbed(command, w) ==
    IF ~command.payload.channel_id
    THEN Returns(Failure("missing_channel"), NoEffects)
    ELSE LET r == resolveChannel(w)
             fx == [NoEffects EXCEPT !.lookups = r.lookups, !.fetches = r.fetches]
             mention == command.action.s = "INACTIVITY_ALERT" =>
                           command.payload.discord_user_id
             sent == [fx EXCEPT !.sends = 1, !.log = <<Sent("send", 1, mention)>>]
         IN IF r.channel = "none" THEN Returns(Failure("channel_unavailable"), fx)
            ELSE IF w.build = "throw" THEN Throws(fx)
            ELSE IF w.send # "ok" THEN Returns(Failure("discord_send_failed"), sent)
            ELSE Returns(Success, sent)

\* line 170: member.roles.cache.filter((role) => role.id !== guild.id)
rolesToRemove(w) == w.roles \ {EveryoneRole}

\* #handleAllianceRoleRemoval, lines 139-199
handleAllianceRoleRemoval(command, w) ==
    IF ~command.payload.discord_id
    THEN Returns(Failure("missing_discord_id"), NoEffects)
    ELSE LET r == resolveGuild(w)
             fx == [NoEffects EXCEPT !.lookups = r.lookups, !.fetches = r.fetches]
             removal == [fx EXCEPT !.removals = 1, !.removed = rolesToRemove(w)]
         IN IF ~r.guild THEN Returns(Failure("guild_unavailable"), fx)
            ELSE IF w.member = "throw" THEN Returns(Failure("member_unavailable"), fx)
            ELSE IF rolesToRemove(w) = {} THEN Returns(Success, fx)
            ELSE IF w.remove = "throw" THEN Returns(Failure("role_removal_failed"), removal)
            ELSE Returns(Success, removal)

\* lines 221-223: for (const content of messages) await channel.send({ content }),
\* from message k on; a rejected send leaves the loop.
RECURSIVE sendMessages(_, _, _, _)
sendMessages(w, count, k, log) ==
    IF k > count THEN [ok |-> TRUE, n |-> k - 1, log |-> log]
    ELSE LET log2 == Append(log, Sent("content", k, TRUE))
         IN IF platformCall(w, k) # "ok" THEN [ok |-> FALSE, n |-> k, log |-> log2]
            ELSE sendMessages(w, count, k + 1, log2)

\* Variant: the single nation wins over the list.
beigeModeNationFirst(payload) ==
    IF payload.nation THEN "nation"
    ELSE IF payload.nations THEN "list"
    ELSE "none"

\* lines 218, 235: which form of the payload the handler serves
beigeMode(payload) ==
    IF payload.nations THEN "list"
    ELSE IF payload.nation THEN "nation"
    ELSE "none"

\* #handleBeigeAlert, lines 201-254 (building happens inside the try block;
\* every message is sent by channel.send): the turn summary of a non-empty
\* list of nations as the plain-text messages #buildBeigeTurnMessages makes
\* of it, or else the embed of a single nation.
handleBeigeAlert(command, w) ==
    IF ~command.payload.channel_id
    THEN Returns(Failure("missing_channel"), NoEffects)
    ELSE LET r == resolveChannel(w)
             fx == [NoEffects EXCEPT !.lookups = r.lookups, !.fetches = r.fetches]
             mode == beigeMode(command.payload)
             d == sendMessages(w, command.payload.beigeMessages, 1, <<>>)
             summary == [fx EXCEPT !.sends = d.n, !.log = d.log]
             embed == [fx EXCEPT !.sends = 1, !.log = <<Sent("embed", 1, TRUE)>>]
         IN IF r.channel = "none" THEN Returns(Failure("channel_unavailable"), fx)
            ELSE IF mode = "none" THEN Returns(Failure("invalid_payload"), fx)
            ELSE IF w.build = "throw" THEN Returns(Failure("discord_send_failed"), fx)
            ELSE IF mode = "list"
                 THEN IF d.ok THEN Returns(Success, summary)
                      ELSE Returns(Failure("discord_send_failed"), summary)
            ELSE IF w.send # "ok" THEN Returns(Failure("discord_send_failed"), embed)
            ELSE Returns(Success, embed)

\* Variant: the assignment messages before the mention messages.
warRoomStepsAssignmentsFirst(command) ==
    <<Sent("create", 1, command.payload.target)>>
    \o [i \in 1..command.payload.assignmentMessages |-> Sent("assignment", i, TRUE)]
    \o [i \in 1..command.payload.mentionMessages |-> Sent("mention", i, TRUE)]

\* lines 284-309: the operations of a war room in the order the handler
\* performs them: the thread with the briefing, the mention messages, the
\* assignment messages.
warRoomSteps(command) ==
    <<Sent("create", 1, command.payload.target)>>
    \o [i \in 1..command.payload.mentionMessages |-> Sent("mention", i, TRUE)]
    \o [i \in 1..command.payload.assignmentMessages |-> Sent("assignment", i, TRUE)]

\* lines 281-323: each step through #withDiscordRetry, in order, until one
\* rejects; n sends were made before step k, and log holds them.
RECURSIVE deliverSteps(_, _, _, _, _)
deliverSteps(w, steps, k, n, log) ==
    IF k > Len(steps) THEN [ok |-> TRUE, n |-> n, log |-> log]
    ELSE LET r == discordRetry(w, n, 1, defaultMaxAttempts)
             log2 == log \o [i \in 1..(r.n - n) |-> steps[k]]
         IN IF ~r.ok THEN [ok |-> FALSE, n |-> r.n, log |-> log2]
            ELSE deliverSteps(w, steps, k + 1, r.n, log2)

\* #handleWarRoomCreate, lines 256-324 (the artifacts are built before the try)
handleWarRoomCreate(command, w) ==
    IF ~(command.payload.forum_channel_id \/ command.payload.channel_id)
    THEN Returns(Failure("missing_channel"), NoEffects)
    ELSE LET r == resolveAnyChannel(w)
             fx == [NoEffects EXCEPT !.lookups = r.lookups, !.fetches = r.fetches]
         IN IF r.channel = "none" \/ ~isThreadOnly(r.channel)
            THEN Returns(Failure("channel_unavailable"), fx)
            ELSE IF w.build = "throw" THEN Throws(fx)
            ELSE LET d == deliverSteps(w, warRoomSteps(command), 1, 0, <<>>)
                     done == [fx EXCEPT !.sends = d.n, !.log = d.log]
                 IN IF d.ok THEN Returns(Success, done)
                    ELSE Returns(Failure("discord_send_failed"), done)

(***************************************************************************)
(* this.handlers is an object literal: a property read finds the six own   *)
(* keys and, through the prototype chain, the properties of                *)
(* Object.prototype.                                                       *)
(***************************************************************************)
RegisteredActions == {"WAR_ALERT", "ALLIANCE_DEPARTURE", "INACTIVITY_ALERT",
                      "ALLIANCE_ROLE_REMOVAL", "BEIGE_ALERT", "WAR_ROOM_CREATE"}
\* Functions inherited from Object.prototype; called as handler(command),
\* with this undefined, the first two return and the rest throw a TypeError.
InheritedReturning == {"constructor", "toString"}
InheritedThrowing == {"valueOf", "hasOwnProperty", "isPrototypeOf",
                      "propertyIsEnumerable", "toLocaleString"}
\* Inherited properties that are truthy but not callable.
InheritedObjects == {"__proto__"}

\* this.handlers[action], line 36
handlersLookup(action) ==
    IF action \in RegisteredActions THEN "own"
    ELSE IF action \in InheritedReturning \cup InheritedThrowing THEN "inherited"
    ELSE IF action \in InheritedObjects THEN "object"
    ELSE "undefined"

\* handler(command) for one of the six registered kinds, lines 14-19
registeredHandler(action, command, w) ==
    CASE action \in {"WAR_ALERT", "ALLIANCE_DEPARTURE", "INACTIVITY_ALERT"} ->
            handleChannelEmbed(command, w)
      [] action = "ALLIANCE_ROLE_REMOVAL" -> handleAllianceRoleRemoval(command, w)
      [] action = "BEIGE_ALERT" -> handleBeigeAlert(command, w)
      [] OTHER -> handleWarRoomCreate(command, w)

\* handler(command) where handler came off Object.prototype
inheritedCall(action, command) ==
    CASE action = "constructor" ->
            Returns([kind |-> "command", success |-> command.success, reason |-> "none"],
                    NoEffects)
      [] action = "toString" ->
            Returns([kind |-> "string", success |-> FALSE, reason |-> "none"], NoEffects)
      [] OTHER -> Throws(NoEffects)

\* The result of dispatch: whether the promise rejects (threw), what it
\* resolves to (ret), which function it called as the handler (invoked), and
\* what the handler did (fx).
DispatchResult(threw, ret, invoked, fx) ==
    [threw |-> threw, ret |-> ret, invoked |-> invoked, fx |-> fx]

\* Variant: a handler call without the try/catch around it.
barrierRethrows(action, r) ==
    DispatchResult(r.threw, r.ret, action, r.fx)

\* lines 43-48: the fault barrier around the handler call
barrier(action, r) ==
    IF r.threw THEN DispatchResult(FALSE, Failure("handler_error"), action, r.fx)
    ELSE DispatchResult(FALSE, r.ret, action, r.fx)

\* Variant: the guard without its typeof test.
invalidActionFalsyOnly(action) == ~JsTruthy(action)

\* line 31: !action || typeof action !== 'string'
invalidAction(action) == ~JsTruthy(action) \/ action.t # "string"

\* dispatch(command), lines 28-49
dispatch(command, w) ==
    LET action == command.action IN
    IF invalidAction(action)
    THEN DispatchResult(FALSE, Failure("invalid_action"), "none", NoEffects)
    ELSE LET handler == handlersLookup(action.s) IN
         IF handler = "undefined"
         THEN DispatchResult(FALSE, Failure("unsupported_action"), "none", NoEffects)
         ELSE IF handler = "own"
              THEN barrier(action.s, registeredHandler(action.s, command, w))
         ELSE IF handler = "inherited"
              THEN barrier(action.s, inheritedCall(action.s, command))
         ELSE barrier(action.s, Throws(NoEffects))

(***************************************************************************)
(* Queue items.  payload holds, per field a handler reads, whether the     *)
(* field is present (nations: a non-empty array; nation: an object), the   *)
(* number of mention and of assignment messages the war-room builders make *)
(* of payload.assigned_members (lines 276-279; one each when there are no  *)
(* members) and the number of messages #buildBeigeTurnMessages makes of    *)
(* payload.nations (line 644; at least one); success says whether the item *)
(* itself carries a truthy property named success.                         *)
(***************************************************************************)
Payload(present) ==
    [channel_id |-> present, forum_channel_id |-> present, discord_id |-> present,
     nations |-> present, nation |-> present, discord_user_id |-> present,
     target |-> present, mentionMessages |-> 1, assignmentMessages |-> 1,
     beigeMessages |-> 1]

Command(id, action) ==
    [id |-> id, action |-> action, success |-> FALSE, payload |-> Payload(TRUE)]

\* bot.js:47-50: new QueueDispatcher({ client, logger }).  The constructor
\* (line 11) stores the guildId it is given, and it is given none.
GuildIdGiven == FALSE

\* The worlds a handler meets during a poll cycle: delivery works, building
\* the artifact throws (a payload of the wrong shape), or the send is refused.
WorldOk ==
    [cached |-> "text", fetched |-> "text", build |-> "ok", send |-> "ok", later |-> <<>>,
     guildId |-> GuildIdGiven, guild |-> "cached", member |-> "ok",
     roles |-> {EveryoneRole, "member"}, remove |-> "ok"]
WorkerWorlds ==
    {WorldOk, [WorldOk EXCEPT !.build = "throw"], [WorldOk EXCEPT !.send = "throw"]}

\* What the producer may put in a batch.
WorkerActions == {JsString("WAR_ALERT")}
WorkerCommands == {Command(id, a) : id \in 0..MaxId, a \in WorkerActions}
\* The producer hands its queue out in id order, each id once per batch.
Batches ==
    {b \in UNION {[1..n -> WorkerCommands] : n \in 0..MaxBatch} :
        \A m, n \in 1..Len(b) :
            (m < n /\ b[m].id # 0 /\ b[n].id # 0) => b[m].id < b[n].id}

\* The outcome of apiService.fetchDiscordQueue: a response whose data is an
\* array, a response without one, or a rejection.
FetchOutcomes ==
    {[ok |-> TRUE, err |-> ErrPlain, isArray |-> TRUE, data |-> b] : b \in Batches}
    \cup {[ok |-> TRUE, err |-> ErrPlain, isArray |-> FALSE, data |-> <<>>]}
    \cup {[ok |-> FALSE, err |-> e, isArray |-> FALSE, data |-> <<>>] : e \in Errors}

(***************************************************************************)
(* The poll cycle.                                                         *)
(***************************************************************************)
Slots == 1..NumSlots
IdleSlot == [pc |-> "idle", due |-> <<>>, k |-> 0, items |-> <<>>, i |-> 0,
             success |-> TRUE, status |-> "none"]
InFlight == {c \in Slots : cyc[c].pc # "idle"}

\* An entry of calls: the call (op), the index of the due record or batch item
\* it is for, that item's id and the status sent or to be sent.
Call(op, idx, id, status) == [op |-> op, idx |-> idx, id |-> id, status |-> status]
\* The value of last: a call with the class of its outcome.
Done(op, idx, id, status, res) ==
    [op |-> op, idx |-> idx, id |-> id, status |-> status, res |-> res]
NoCall == Done("none", 0, 0, "none", "none")

\* calls and last keep a finished cycle's history for one step only.
CallsKept == IF InFlight = {} THEN <<>> ELSE calls
LastKept == IF InFlight = {} THEN NoCall ELSE last

\* Variant: no test for the id.
hasNoIdNever(item) == FALSE

\* #processItem, line 196: !item?.id
hasNoId(item) == item.id = 0

\* Variant: every dispatched item is reported as complete.
statusOfAlwaysComplete(dispatchResult) == "complete"

\* line 202
statusOf(dispatchResult) == IF dispatchResult.success THEN "complete" ELSE "failed"

\* Variant: a loop that passes over the item at i, id or not.
NextWithIdSkipsOne(items, i) == IF i > Len(items) THEN i ELSE i + 1

\* The first index from i on whose item has an id (Len + 1 when none has).
RECURSIVE NextWithId(_, _)
NextWithId(items, i) ==
    IF i > Len(items) THEN i
    ELSE IF hasNoId(items[i]) THEN NextWithId(items, i + 1)
    ELSE i

Skips(items, i, j) ==
    [n \in 1..(j - i) |-> Call("skip", i + n - 1, items[i + n - 1].id, "none")]

\* Variant: a cycle whose end schedules the next tick but leaves the
\* in-flight flag set.
continueItemsKeepsPolling(c, items, i, success, ba, cur, log) ==
    LET j == NextWithId(items, i)
        log2 == log \o Skips(items, i, j)
    IN IF j <= Len(items)
       THEN /\ cyc' = [cyc EXCEPT ![c] = [@ EXCEPT !.pc = "dispatch", !.items = items,
                                             !.i = j, !.success = success,
                                             !.due = <<>>, !.k = 0, !.status = "none"]]
            /\ backoffAttempts' = ba
            /\ currentPollIntervalMs' = cur
            /\ calls' = log2
            /\ UNCHANGED <<polling, pollTimer, orphanTimers>>
       ELSE LET b == IF success THEN resetBackoff ELSE [attempts |-> ba, interval |-> cur]
                t == scheduleNextPoll(pollTimer, orphanTimers, b.interval)
            IN /\ cyc' = [cyc EXCEPT ![c] = IdleSlot]
               /\ backoffAttempts' = b.attempts
               /\ currentPollIntervalMs' = b.interval
               /\ polling' = polling
               /\ pollTimer' = t.pt
               /\ orphanTimers' = t.orph
               /\ calls' = log2

\* Variant: a cycle whose end schedules the next tick after the interval
\* the cycle began with.
continueItemsStaleInterval(c, items, i, success, ba, cur, log) ==
    LET j == NextWithId(items, i)
        log2 == log \o Skips(items, i, j)
    IN IF j <= Len(items)
       THEN /\ cyc' = [cyc EXCEPT ![c] = [@ EXCEPT !.pc = "dispatch", !.items = items,
                                             !.i = j, !.success = success,
                                             !.due = <<>>, !.k = 0, !.status = "none"]]
            /\ backoffAttempts' = ba
            /\ currentPollIntervalMs' = cur
            /\ calls' = log2
            /\ UNCHANGED <<polling, pollTimer, orphanTimers>>
       ELSE LET b == IF success THEN resetBackoff ELSE [attempts |-> ba, interval |-> cur]
                t == scheduleNextPoll(pollTimer, orphanTimers, currentPollIntervalMs)
            IN /\ cyc' = [cyc EXCEPT ![c] = IdleSlot]
               /\ backoffAttempts' = b.attempts
               /\ currentPollIntervalMs' = b.interval
               /\ polling' = FALSE
               /\ pollTimer' = t.pt
               /\ orphanTimers' = t.orph
               /\ calls' = log2

\* #poll, lines 162-172: the for loop from item i on, up to the next awaited
\* dispatch; when no item is left, the backoff reset and the finally block.
\* ba and cur are backoffAttempts and currentPollIntervalMs as fetch left them.
continueItems(c, items, i, success, ba, cur, log) ==
    LET j == NextWithId(items, i)
        log2 == log \o Skips(items, i, j)
    IN IF j <= Len(items)
       THEN /\ cyc' = [cyc EXCEPT ![c] = [@ EXCEPT !.pc = "dispatch", !.items = items,
                                             !.i = j, !.success = success,
                                             !.due = <<>>, !.k = 0, !.status = "none"]]
            /\ backoffAttempts' = ba
            /\ currentPollIntervalMs' = cur
            /\ calls' = log2
            /\ UNCHANGED <<polling, pollTimer, orphanTimers>>
       ELSE LET b == IF success THEN resetBackoff ELSE [attempts |-> ba, interval |-> cur]
                t == scheduleNextPoll(pollTimer, orphanTimers, b.interval)
            IN /\ cyc' = [cyc EXCEPT ![c] = IdleSlot]
               /\ backoffAttempts' = b.attempts
               /\ currentPollIntervalMs' = b.interval
               /\ polling' = FALSE
               /\ pollTimer' = t.pt
               /\ orphanTimers' = t.orph
               /\ calls' = log2

\* start(), lines 128-135
start ==
    /\ ctl' = ctl + 1
    /\ IF pollTimer.set
       THEN UNCHANGED <<pollTimer, orphanTimers>>
       ELSE LET t == scheduleNextPoll(pollTimer, orphanTimers, 0)
            IN pollTimer' = t.pt /\ orphanTimers' = t.orph
    /\ tick' = "none"
    /\ calls' = CallsKept
    /\ last' = LastKept
    /\ UNCHANGED <<now, polling, backoffAttempts, currentPollIntervalMs,
                   pendingStatusUpdates, cyc, netFails, dsp, rt, ck, api>>

\* stop(), lines 137-143: clearTimeout on the handle, stale or not
stop ==
    /\ ctl' = ctl + 1
    /\ pollTimer' = IF pollTimer.set THEN NoTimer ELSE pollTimer
    /\ tick' = "none"
    /\ calls' = CallsKept
    /\ last' = LastKept
    /\ UNCHANGED <<now, orphanTimers, polling, backoffAttempts, currentPollIntervalMs,
                   pendingStatusUpdates, cyc, netFails, dsp, rt, ck, api>>

\* Time passes.
Advance ==
    /\ now < MaxNow
    /\ now' = now + 1
    /\ tick' = "none"
    /\ calls' = CallsKept
    /\ last' = LastKept
    /\ UNCHANGED <<pollTimer, orphanTimers, polling, backoffAttempts,
                   currentPollIntervalMs, pendingStatusUpdates, cyc, ctl, netFails,
                   dsp, rt, ck, api>>

\* Variant: #poll without its guard.
skipPollNever == FALSE

\* #poll, line 146
skipPoll == polling

\* A poll timeout fires and runs #poll up to its first awaited call
\* (lines 145-156 with 238-250, or 175-179 when nothing is due).
poll ==
    \E f \in AfterFire :
       \/ /\ skipPoll
          /\ LET t == scheduleNextPoll(f.pt, f.orph, currentPollIntervalMs)
             IN pollTimer' = t.pt /\ orphanTimers' = t.orph
          /\ tick' = "skip"
          /\ calls' = CallsKept
          /\ last' = LastKept
          /\ UNCHANGED <<now, polling, backoffAttempts, currentPollIntervalMs,
                         pendingStatusUpdates, cyc, ctl, netFails, dsp, rt, ck, api>>
       \/ /\ ~skipPoll
          /\ \E c \in Slots :
                /\ cyc[c].pc = "idle"
                /\ \A d \in Slots : d < c => cyc[d].pc # "idle"
                /\ LET due == dueUpdates(pendingStatusUpdates)
                   IN cyc' = [cyc EXCEPT ![c] =
                                 IF Len(due) = 0
                                 THEN [IdleSlot EXCEPT !.pc = "fetch"]
                                 ELSE [IdleSlot EXCEPT !.pc = "flush", !.due = due, !.k = 1]]
          /\ polling' = TRUE
          /\ pollTimer' = f.pt
          /\ orphanTimers' = f.orph
          /\ tick' = "run"
          /\ calls' = <<>>
          /\ last' = NoCall
          /\ UNCHANGED <<now, backoffAttempts, currentPollIntervalMs,
                         pendingStatusUpdates, ctl, netFails, dsp, rt, ck, api>>

\* #flushPendingStatusUpdates, lines 248-267: the awaited status call for
\* dueUpdates[k] completes with outcome o; then the next due record's call
\* is issued, or the flush returns and #fetchQueue issues the fetch.
flushPendingStatusUpdates(c, o) ==
    /\ cyc[c].pc = "flush"
    /\ LET update == cyc[c].due[cyc[c].k]
       IN /\ pendingStatusUpdates' = flushOutcome(pendingStatusUpdates, update, o)
          /\ calls' = Append(calls, Call("flush", cyc[c].k, update.id, update.status))
          /\ last' = Done("flush", cyc[c].k, update.id, update.status, ResClass(o))
    /\ cyc' = [cyc EXCEPT ![c] = IF cyc[c].k < Len(cyc[c].due)
                                 THEN [@ EXCEPT !.k = @ + 1]
                                 ELSE [@ EXCEPT !.pc = "fetch", !.due = <<>>, !.k = 0]]
    /\ tick' = "none"
    /\ UNCHANGED <<now, pollTimer, orphanTimers, polling, backoffAttempts,
                   currentPollIntervalMs, ctl, netFails, dsp, rt, ck, api>>

\* #fetchQueue, lines 175-193, then #poll lines 156-172: the awaited fetch
\* completes with outcome o.
fetchQueue(c, o) ==
    /\ cyc[c].pc = "fetch"
    /\ LET items == IF o.ok /\ o.isArray THEN o.data ELSE <<>>
           netFail == ~o.ok /\ isNetworkError(o.err)
           b == IF netFail THEN increaseBackoff(backoffAttempts)
                ELSE [attempts |-> backoffAttempts, interval |-> currentPollIntervalMs]
           success == ~netFail
       IN /\ netFails' = IF netFail THEN netFails + 1 ELSE 0
          /\ continueItems(c, items, 1, success, b.attempts, b.interval,
                           Append(calls, Call("fetch", Len(items), 0, "none")))
          /\ last' = Done("fetch", Len(items), 0, "none", ResClass(o))
    /\ tick' = "none"
    /\ UNCHANGED <<now, pendingStatusUpdates, ctl, dsp, rt, ck, api>>

\* #processItem, lines 201-204: the awaited dispatch of items[i] settles in
\* world w and the status call is issued.  Were dispatch to reject, the
\* rejection would leave #processItem and the for loop, and #poll would end
\* through its finally block (lines 169-172).
processItem(c, w) ==
    /\ cyc[c].pc = "dispatch"
    /\ LET item == cyc[c].items[cyc[c].i]
           d == dispatch(item, w)
           dispatchResult == d.ret
           status == statusOf(dispatchResult)
       IN IF d.threw
          THEN LET t == scheduleNextPoll(pollTimer, orphanTimers, currentPollIntervalMs)
               IN /\ cyc' = [cyc EXCEPT ![c] = IdleSlot]
                  /\ polling' = FALSE
                  /\ pollTimer' = t.pt
                  /\ orphanTimers' = t.orph
                  /\ calls' = Append(calls, Call("dispatch", cyc[c].i, item.id, "none"))
                  /\ last' = Done("dispatch", cyc[c].i, item.id, "none", "rejected")
          ELSE /\ cyc' = [cyc EXCEPT ![c] = [@ EXCEPT !.pc = "report", !.status = status]]
               /\ calls' = Append(calls, Call("dispatch", cyc[c].i, item.id, status))
               /\ last' = Done("dispatch", cyc[c].i, item.id, status,
                               IF dispatchResult.kind = "outcome" /\ ~dispatchResult.success
                               THEN dispatchResult.reason ELSE dispatchResult.kind)
               /\ UNCHANGED <<polling, pollTimer, orphanTimers>>
    /\ tick' = "none"
    /\ UNCHANGED <<now, backoffAttempts, currentPollIntervalMs, pendingStatusUpdates,
                   ctl, netFails, dsp, rt, ck, api>>

\* #reportStatus, lines 207-219, then the rest of the for loop: the awaited
\* status call for items[i] completes with outcome o.
reportStatus(c, o) ==
    /\ cyc[c].pc = "report"
    /\ LET item == cyc[c].items[cyc[c].i]
       IN /\ pendingStatusUpdates' =
                 reportOutcome(pendingStatusUpdates, item.id, cyc[c].status, o)
          /\ continueItems(c, cyc[c].items, cyc[c].i + 1, cyc[c].success,
                           backoffAttempts, currentPollIntervalMs,
                           Append(calls, Call("report", cyc[c].i, item.id, cyc[c].status)))
          /\ last' = Done("report", cyc[c].i, item.id, cyc[c].status, ResClass(o))
    /\ tick' = "none"
    /\ UNCHANGED <<now, ctl, netFails, dsp, rt, ck, api>>

DspIdle == [pc |-> "off"]
RtIdle == [pc |-> "off"]
CkIdle == [pc |-> "off"]
ApiIdle == [pc |-> "off"]

\* The state after new QueueWorker({...}), lines 105-126
WorkerInit ==
    /\ now = 0
    /\ pollTimer = NoTimer
    /\ orphanTimers = EmptyBag
    /\ polling = FALSE
    /\ backoffAttempts = 0
    /\ currentPollIntervalMs = pollIntervalMs
    /\ pendingStatusUpdates = <<>>
    /\ cyc = [c \in Slots |-> IdleSlot]
    /\ calls = <<>>
    /\ last = NoCall
    /\ tick = "none"
    /\ ctl = 0
    /\ netFails = 0

Init ==
    /\ WorkerInit
    /\ api = ApiIdle
    /\ dsp = DspIdle
    /\ rt = RtIdle
    /\ ck = CkIdle

\* The steps of the worker itself, the producer answering a fetch with one
\* of fetches.
Work(fetches) ==
    \/ Advance
    \/ poll
    \/ \E c \in Slots, o \in ApiOutcomes : flushPendingStatusUpdates(c, o)
    \/ \E c \in Slots, o \in fetches : fetchQueue(c, o)
    \/ \E c \in Slots, w \in WorkerWorlds : processItem(c, w)
    \/ \E c \in Slots, o \in ApiOutcomes : reportStatus(c, o)

\* The program: bot.js calls start() once, when the client is ready
\* (bot.js:63-66), and never calls stop().
Next ==
    \/ (ctl = 0 /\ start)
    \/ Work(FetchOutcomes)

Spec == Init /\ [][Next]_vars

\* The QueueWorker under any caller: start() and stop() are called at any
\* moment, MaxControl times in all.  The producer's queue holds one item.
ControlFetchOutcomes ==
    {o \in FetchOutcomes : \A n \in 1..Len(o.data) : n = 1 /\ o.data[n].id = 1}

NextControl ==
    \/ (ctl < MaxControl /\ start)
    \/ (ctl < MaxControl /\ stop)
    \/ Work(ControlFetchOutcomes)

SpecControl == Init /\ [][NextControl]_vars

(***************************************************************************)
(* dispatch(command) on its own: one call, for any command and any world.  *)
(***************************************************************************)
DispatchActions ==
    {JsUndefined, JsNull, JsObject, JsNumber("0"), JsNumber("42"), JsString("")}
    \cup {JsString(a) : a \in RegisteredActions \cup InheritedReturning
                               \cup InheritedThrowing \cup InheritedObjects
                               \cup {"PING", "war_alert"}}

DispatchCommands ==
    {[id |-> 1, action |-> a, success |-> s, payload |-> Payload(p)] :
        a \in DispatchActions, s \in BOOLEAN, p \in BOOLEAN}

DispatchWorlds ==
    {[WorldOk EXCEPT !.cached = c, !.fetched = f, !.build = b, !.send = d] :
        c \in ChannelKinds \cup {"none"}, f \in ChannelKinds \cup {"none", "throw"},
        b \in {"ok", "throw"}, d \in {"ok", "throw"}}

NoResult == DispatchResult(FALSE, Failure("none"), "none", NoEffects)

InitDispatch ==
    /\ WorkerInit
    /\ api = ApiIdle
    /\ rt = RtIdle
    /\ ck = CkIdle
    /\ dsp \in {[pc |-> "ready", command |-> c, w |-> w, result |-> NoResult] :
                   c \in DispatchCommands, w \in DispatchWorlds}

\* await this.dispatcher.dispatch(command)
dispatchCall ==
    /\ dsp.pc = "ready"
    /\ dsp' = [dsp EXCEPT !.pc = "done", !.result = dispatch(dsp.command, dsp.w)]
    /\ UNCHANGED <<workerVars, rt, ck, api>>

NextDispatch == dispatchCall

SpecDispatch == InitDispatch /\ [][NextDispatch]_vars

(***************************************************************************)
(* #withDiscordRetry(operation, label, maxAttempts) on its own.            *)
(***************************************************************************)
\* Largest maxAttempts argument tried.
MaxAttemptsArg == 4

InitRetry ==
    /\ WorkerInit
    /\ api = ApiIdle
    /\ dsp = DspIdle
    /\ ck = CkIdle
    /\ rt \in {[pc |-> "called", maxAttempts |-> m, attempt |-> 0, invocations |-> 0,
                sleeps |-> <<>>, settled |-> [ok |-> TRUE, err |-> NoOpError],
                result |-> "none"] : m \in 0..MaxAttemptsArg}

\* lines 969-972: the call enters the loop and invokes operation(), or, with
\* maxAttempts < 1, falls through to return null
withDiscordRetry ==
    /\ rt.pc = "called"
    /\ rt' = IF 1 <= rt.maxAttempts
             THEN [rt EXCEPT !.pc = "operation", !.attempt = 1, !.invocations = 1]
             ELSE [rt EXCEPT !.pc = "done", !.result = "null"]
    /\ UNCHANGED <<workerVars, dsp, ck, api>>

\* lines 972-987: the awaited operation() settles with outcome o
operationSettles(o) ==
    /\ rt.pc = "operation"
    /\ LET retryAfter == retryAfterSeconds(o.err)
       IN rt' = IF o.ok
                THEN [rt EXCEPT !.pc = "done", !.result = "value", !.settled = o]
                ELSE IF ~shouldRetry(rt.attempt, rt.maxAttempts, retryAfter)
                     THEN [rt EXCEPT !.pc = "done", !.result = "thrown", !.settled = o]
                ELSE [rt EXCEPT !.pc = "sleep", !.settled = o,
                                !.sleeps = Append(@, waitMs(retryAfter))]
    /\ UNCHANGED <<workerVars, dsp, ck, api>>

\* lines 987-988, 970-972, 991: the sleep ends, the loop invokes operation() again,
\* or leaves the loop when no attempt is left and returns null
sleepElapses ==
    /\ rt.pc = "sleep"
    /\ rt' = IF rt.attempt + 1 <= rt.maxAttempts
             THEN [rt EXCEPT !.pc = "operation", !.attempt = @ + 1, !.invocations = @ + 1]
             ELSE [rt EXCEPT !.pc = "done", !.attempt = @ + 1, !.result = "null"]
    /\ UNCHANGED <<workerVars, dsp, ck, api>>

NextRetry ==
    \/ withDiscordRetry
    \/ \E o \in OpOutcomes : operationSettles(o)
    \/ sleepElapses

SpecRetry == InitRetry /\ [][NextRetry]_vars

(***************************************************************************)
(* Properties of the poll cycle.                                           *)
(***************************************************************************)
LedgerIds(m) == {m[n].id : n \in 1..Len(m)}
RecordsFor(m, id) == {n \in 1..Len(m) : m[n].id = id}
HasCall(log, op, idx) == \E n \in 1..Len(log) : log[n].op = op /\ log[n].idx = idx
\* The cycle whose history calls holds has just ended.
CycleEnded == InFlight = {} /\ Len(calls) > 0
\* The number of items the fetch of the cycle in calls returned.
Fetched(log) ==
    IF \E n \in 1..Len(log) : log[n].op = "fetch"
    THEN log[CHOOSE n \in 1..Len(log) : log[n].op = "fetch"].idx
    ELSE 0
\* This step is the return of a status call, of the kind op, with outcome class res.
StatusCallReturns(op, res) ==
    calls' # calls /\ last'.op = op /\ last'.res = res

\* C1: in every reachable state at most one poll cycle is executing, and a
\* timer tick that fires while a cycle is in flight does no flush, fetch,
\* dispatch or status-report work: it changes nothing but the timers, where
\* it replaces itself by the next tick one poll interval ahead.
C1_PollCyclesNeverOverlap ==
    /\ [](Cardinality(InFlight) <= 1 /\ (polling <=> InFlight # {}))
    /\ [][/\ (tick' = "run" => InFlight = {})
          /\ (tick' = "skip" =>
                /\ InFlight # {}
                /\ UNCHANGED <<cyc, calls, last, pendingStatusUpdates, backoffAttempts,
                               currentPollIntervalMs, polling, netFails, now>>
                /\ pollTimer' = [set |-> TRUE, at |-> now + currentPollIntervalMs]
                /\ PendingTimers' = PendingTimers)]_vars

C1_TickSkippedInFlight == tick = "skip" /\ InFlight # {} /\ polling

\* C2: while the last k >= 1 fetches all failed with a network-class error,
\* backoffAttempts = k and currentPollIntervalMs = min(pollIntervalMs * 2^k,
\* maxBackoffMs); once the poll cycle of a fetch that did not fail so has
\* ended, backoffAttempts = 0 and currentPollIntervalMs = pollIntervalMs.
C2_FetchBackoff ==
    /\ netFails >= 1 =>
          /\ backoffAttempts = netFails
          /\ currentPollIntervalMs = Min(pollIntervalMs * Pow2(netFails), maxBackoffMs)
    /\ (netFails = 0 /\ InFlight = {}) =>
          /\ backoffAttempts = 0
          /\ currentPollIntervalMs = pollIntervalMs

C2_TwoFailuresCapped ==
    /\ netFails = 2
    /\ backoffAttempts = 2
    /\ pollIntervalMs * Pow2(2) > maxBackoffMs
    /\ currentPollIntervalMs = maxBackoffMs

\* C3: a fetched item without an id is never dispatched, never reported and
\* never gets a ledger record, and the other items of its batch are all
\* dispatched and reported.
C3_IdlessItemSkipped ==
    /\ \A n \in 1..Len(calls) :
          /\ calls[n].op \in {"dispatch", "report"} => calls[n].id # 0
          /\ calls[n].op = "skip" => calls[n].id = 0
    /\ 0 \notin LedgerIds(pendingStatusUpdates)
    /\ \A c \in InFlight : \A n \in 1..Len(cyc[c].items) :
          IF cyc[c].items[n].id = 0
          THEN ~HasCall(calls, "dispatch", n) /\ ~HasCall(calls, "report", n)
               /\ (n < cyc[c].i => HasCall(calls, "skip", n))
          ELSE n < cyc[c].i => HasCall(calls, "dispatch", n) /\ HasCall(calls, "report", n)
    /\ CycleEnded =>
          \A n \in 1..Fetched(calls) :
             IF HasCall(calls, "skip", n)
             THEN ~HasCall(calls, "dispatch", n) /\ ~HasCall(calls, "report", n)
             ELSE HasCall(calls, "dispatch", n) /\ HasCall(calls, "report", n)

C3_SkippedThenProcessed ==
    /\ CycleEnded
    /\ Fetched(calls) = 2
    /\ HasCall(calls, "skip", 1)
    /\ HasCall(calls, "dispatch", 2)
    /\ HasCall(calls, "report", 2)

\* C4: the ledger never holds two records for one id and every record has
\* attempt >= 1; an enqueue(id, status) leaves exactly one record for id,
\* with attempt one more than the record it replaces (1 when there was none)
\* and nextAttemptAt = now + min(statusBackoffBaseMs * 2^(attempt-1),
\* maxBackoffMs) for the new attempt.
C4_OneRecordPerId ==
    /\ [](\A n \in 1..Len(pendingStatusUpdates) :
             /\ pendingStatusUpdates[n].attempt >= 1
             /\ RecordsFor(pendingStatusUpdates, pendingStatusUpdates[n].id) = {n})
    /\ [][\A op \in {"flush", "report"} : StatusCallReturns(op, "net") =>
             LET id == last'.id
                 n == IF MapHas(pendingStatusUpdates, id)
                      THEN MapGet(pendingStatusUpdates, id).attempt ELSE 0
             IN /\ Cardinality(RecordsFor(pendingStatusUpdates', id)) = 1
                /\ MapGet(pendingStatusUpdates', id).attempt = n + 1
                /\ MapGet(pendingStatusUpdates', id).nextAttemptAt =
                      now + Min(statusBackoffBaseMs * Pow2((n + 1) - 1), maxBackoffMs)
                /\ Len(pendingStatusUpdates') =
                      Len(pendingStatusUpdates) + (IF n = 0 THEN 1 ELSE 0)]_vars

C4_ReportReplacesRecord ==
    /\ last.op = "report"
    /\ last.res = "net"
    /\ MapHas(pendingStatusUpdates, last.id)
    /\ MapGet(pendingStatusUpdates, last.id).attempt = 3
    /\ RecordsFor(pendingStatusUpdates, last.id) = {1}

\* C5: when the status call made right after dispatching an item fails with
\* a network-class error and the ledger has no record for the item's id, the
\* ledger gains exactly the record {id, status, attempt 1, nextAttemptAt =
\* now + statusBackoffBaseMs}, status being the status dispatch produced and
\* the call reported.
C5_FirstReportFailureEnqueues ==
    [][(StatusCallReturns("report", "net") /\ ~MapHas(pendingStatusUpdates, last'.id)) =>
          /\ \E n \in 1..Len(calls') :
                calls'[n] = Call("dispatch", last'.idx, last'.id, last'.status)
          /\ last'.status \in {"complete", "failed"}
          /\ pendingStatusUpdates' =
                Append(pendingStatusUpdates,
                       [id |-> last'.id, status |-> last'.status, attempt |-> 1,
                        nextAttemptAt |-> now + statusBackoffBaseMs])]_vars

C5_FailedStatusEnqueued ==
    /\ last.op = "report"
    /\ last.res = "net"
    /\ last.status = "failed"
    /\ MapHas(pendingStatusUpdates, last.id)
    /\ MapGet(pendingStatusUpdates, last.id) =
          [id |-> last.id, status |-> "failed", attempt |-> 1,
           nextAttemptAt |-> now + statusBackoffBaseMs]

\* C6: a flush retries only records of the ledger that are due; when the
\* retried status call succeeds the record is removed, when it fails with a
\* network-class error the record is replaced by one with the same status,
\* attempt + 1 and the capped delay of the new attempt, and when it fails
\* with any other error the record is removed.  No other record changes.
C6_FlushOutcomes ==
    [][\A res \in {"ok", "net", "other"} : StatusCallReturns("flush", res) =>
          /\ MapHas(pendingStatusUpdates, last'.id)
          /\ LET update == MapGet(pendingStatusUpdates, last'.id)
             IN /\ update.nextAttemptAt <= now
                /\ update.status = last'.status
                /\ MapDelete(pendingStatusUpdates', update.id) =
                      MapDelete(pendingStatusUpdates, update.id)
                /\ IF res = "net"
                   THEN /\ MapHas(pendingStatusUpdates', update.id)
                        /\ MapGet(pendingStatusUpdates', update.id) =
                              [id |-> update.id, status |-> update.status,
                               attempt |-> update.attempt + 1,
                               nextAttemptAt |->
                                  now + Min(statusBackoffBaseMs * Pow2(update.attempt),
                                            maxBackoffMs)]
                   ELSE ~MapHas(pendingStatusUpdates', update.id)]_vars

C6_FlushRetryCapped ==
    /\ last.op = "flush"
    /\ last.res = "net"
    /\ MapHas(pendingStatusUpdates, last.id)
    /\ MapGet(pendingStatusUpdates, last.id).attempt = 3
    /\ statusBackoffBaseMs * Pow2(2) > maxBackoffMs
    /\ MapGet(pendingStatusUpdates, last.id).nextAttemptAt = now + maxBackoffMs

\* C8: an exception raised by a handler never leaves dispatch: dispatch
\* returns {success: false, reason: 'handler_error'}, the poll cycle goes on,
\* the item is reported as 'failed', every dispatched item is reported with
\* the status its dispatch produced, and every later item of the batch is
\* still dispatched and reported.
C8_HandlerFaultIsolated ==
    /\ last.res # "rejected"
    /\ (last.op = "dispatch" /\ last.res = "handler_error") =>
          \E c \in InFlight :
             /\ cyc[c].pc = "report"
             /\ cyc[c].i = last.idx
             /\ cyc[c].status = "failed"
             /\ last.status = "failed"
    /\ \A n \in 1..Len(calls) :
          calls[n].op = "report" =>
             \E m \in 1..(n - 1) :
                calls[m] = Call("dispatch", calls[n].idx, calls[n].id, calls[n].status)
    /\ \A c \in InFlight : \A n \in 1..Len(cyc[c].items) :
          (n < cyc[c].i /\ cyc[c].items[n].id # 0) =>
             HasCall(calls, "dispatch", n) /\ HasCall(calls, "report", n)
    /\ CycleEnded =>
          \A n \in 1..Len(calls) :
             calls[n].op = "dispatch" =>
                /\ \E m \in (n + 1)..Len(calls) :
                      calls[m] = Call("report", calls[n].idx, calls[n].id, calls[n].status)
                /\ \A k \in (calls[n].idx + 1)..Fetched(calls) :
                      \/ HasCall(calls, "skip", k)
                      \/ HasCall(calls, "dispatch", k) /\ HasCall(calls, "report", k)

C8_FaultThenLaterItem ==
    /\ CycleEnded
    /\ \E n \in 1..Len(calls) : calls[n] = Call("dispatch", 1, 1, "failed")
    /\ \E n \in 1..Len(calls) : calls[n] = Call("report", 1, 1, "failed")
    /\ HasCall(calls, "dispatch", 2)
    /\ HasCall(calls, "report", 2)

(***************************************************************************)
(* Properties of dispatch.                                                 *)
(***************************************************************************)
\* C7: for every action that is a non-empty string other than the six
\* registered kinds, dispatch returns {success: false, reason:
\* 'unsupported_action'} and calls no handler.
C7_UnknownActionUnsupported ==
    (/\ dsp.pc = "done"
     /\ dsp.command.action.t = "string"
     /\ dsp.command.action.s # ""
     /\ dsp.command.action.s \notin RegisteredActions) =>
        /\ ~dsp.result.threw
        /\ dsp.result.ret = Failure("unsupported_action")
        /\ dsp.result.invoked = "none"
        /\ dsp.result.fx = NoEffects

\* C9: when the item's action is missing (undefined, null, empty) or is not
\* a string, dispatch returns {success: false, reason: 'invalid_action'},
\* calls no handler and touches nothing.
C9_InvalidAction ==
    (/\ dsp.pc = "done"
     /\ \/ dsp.command.action \in {JsUndefined, JsNull, JsString("")}
        \/ dsp.command.action.t # "string") =>
        /\ ~dsp.result.threw
        /\ dsp.result.ret = Failure("invalid_action")
        /\ dsp.result.invoked = "none"
        /\ dsp.result.fx = NoEffects

C9_NumberActionRejected ==
    /\ dsp.pc = "done"
    /\ dsp.command.action = JsNumber("42")
    /\ dsp.result.ret = Failure("invalid_action")
    /\ dsp.result.invoked = "none"

(***************************************************************************)
(* Properties of #withDiscordRetry.                                        *)
(***************************************************************************)
\* C10: the operation is invoked at most maxAttempts times; when an
\* invocation fails with an error carrying a numeric retry_after of d
\* seconds and attempts remain, the retrier sleeps max(ceil(d * 1000), 1000)
\* ms and then invokes the operation once more; when an invocation succeeds
\* the call returns its result and invokes nothing further.
C10_RetrierBoundedAttempts ==
    /\ [](/\ rt.invocations <= Max(rt.maxAttempts, 0)
          /\ rt.invocations = rt.attempt \/ (rt.pc = "done" /\ rt.result = "null")
          /\ Len(rt.sleeps) \in {rt.invocations - 1, rt.invocations}
          /\ rt.result = "value" =>
                rt.pc = "done" /\ rt.settled.ok /\ Len(rt.sleeps) = rt.invocations - 1)
    /\ [][/\ (/\ rt.pc = "operation"
              /\ ~rt'.settled.ok
              /\ retryAfterSeconds(rt'.settled.err).t = "num"
              /\ rt.attempt < rt.maxAttempts) =>
                 /\ rt'.pc = "sleep"
                 /\ rt'.invocations = rt.invocations
                 /\ rt'.sleeps =
                       Append(rt.sleeps,
                              LET us == retryAfterSeconds(rt'.settled.err).us
                                  ms == (us + 999) \div 1000
                              IN IF ms > 1000 THEN ms ELSE 1000)
          /\ rt.pc = "sleep" =>
                 rt'.pc = "operation" /\ rt'.invocations = rt.invocations + 1
          /\ (rt.pc = "operation" /\ rt'.settled.ok) =>
                 /\ rt'.pc = "done"
                 /\ rt'.result = "value"
                 /\ rt'.invocations = rt.invocations
                 /\ rt'.sleeps = rt.sleeps
          /\ rt.pc = "done" => rt' = rt]_vars

C10_FailOnceThenSucceed ==
    /\ rt.pc = "done"
    /\ rt.maxAttempts = defaultMaxAttempts
    /\ rt.result = "value"
    /\ rt.sleeps = <<2000>>
    /\ rt.invocations = 2

\* C11: when an invocation fails with an error that carries no numeric
\* retry_after, or fails on the last allowed attempt whatever it carries,
\* the call ends at once by throwing that error: no sleep is added and the
\* operation is not invoked again.
C11_RetrierRethrows ==
    [][(/\ rt.pc = "operation"
        /\ ~rt'.settled.ok
        /\ \/ retryAfterSeconds(rt'.settled.err).t # "num"
           \/ rt.attempt >= rt.maxAttempts) =>
           /\ rt'.pc = "done"
           /\ rt'.result = "thrown"
           /\ rt'.sleeps = rt.sleeps
           /\ rt'.invocations = rt.invocations
           /\ rt'.attempt = rt.attempt]_vars

C11_RateLimitedOnLastAttempt ==
    /\ rt.pc = "done"
    /\ rt.result = "thrown"
    /\ rt.maxAttempts = defaultMaxAttempts
    /\ rt.invocations = defaultMaxAttempts
    /\ Len(rt.sleeps) = defaultMaxAttempts - 1
    /\ retryAfterSeconds(rt.settled.err).t = "num"

\* The entries of log that are for batch items, in order.
ItemCalls(log) == SelectSeq(log, LAMBDA e : e.op \in {"skip", "dispatch", "report"})

\* C12: within a poll cycle the items are handled one at a time in the
\* order of the batch: the calls for batch position n all come before those
\* for position n + 1, a dispatch is directly followed by the report for the
\* same item, a new dispatch is awaited only when every earlier item with an
\* id has been dispatched and reported, and each item with an id - and only
\* such an item - is dispatched exactly once.
C12_SequentialDispatch ==
    LET ic == ItemCalls(calls)
    IN /\ \A n \in 1..Len(ic) :
             /\ n < Len(ic) =>
                   IF ic[n].op = "dispatch"
                   THEN ic[n + 1] = Call("report", ic[n].idx, ic[n].id, ic[n].status)
                   ELSE ic[n + 1].idx = ic[n].idx + 1 /\ ic[n + 1].op # "report"
             /\ ic[n].op = "dispatch" =>
                   Cardinality({m \in 1..Len(ic) :
                                   ic[m].op = "dispatch" /\ ic[m].idx = ic[n].idx}) = 1
             /\ n = 1 => ic[n].idx = 1 /\ ic[n].op # "report"
       /\ \A c \in InFlight :
             /\ \A n \in 1..Len(ic) :
                   /\ ic[n].idx <= Len(cyc[c].items)
                   /\ ic[n].id = cyc[c].items[ic[n].idx].id
                   /\ ic[n].op = "skip" <=> ic[n].id = 0
             /\ cyc[c].pc = "dispatch" =>
                   /\ Len(ic) > 0 => ic[Len(ic)].op # "dispatch" /\ ic[Len(ic)].idx = cyc[c].i - 1
                   /\ Len(ic) = 0 => cyc[c].i = 1
             /\ cyc[c].pc = "report" =>
                   /\ Len(ic) > 0
                   /\ ic[Len(ic)].op = "dispatch"
                   /\ ic[Len(ic)].idx = cyc[c].i
       /\ CycleEnded =>
             /\ Len(ic) > 0 => ic[Len(ic)].op # "dispatch" /\ ic[Len(ic)].idx = Fetched(calls)
             /\ Len(ic) = 0 => Fetched(calls) = 0
             /\ \A n \in 1..Len(ic) : ic[n].op = "skip" <=> ic[n].id = 0

C12_TwoItemsInOrder ==
    /\ CycleEnded
    /\ calls = <<Call("fetch", 2, 0, "none"),
                 Call("dispatch", 1, 1, "complete"), Call("report", 1, 1, "complete"),
                 Call("dispatch", 2, 2, "complete"), Call("report", 2, 2, "complete")>>

\* The actions whose handler needs a channel id from the payload.
ChannelActions == {"WAR_ALERT", "ALLIANCE_DEPARTURE", "INACTIVITY_ALERT",
                   "BEIGE_ALERT", "WAR_ROOM_CREATE"}

\* C15: dispatching a war alert, alliance departure, inactivity alert, beige
\* alert or war-room create whose payload carries no channel id returns
\* {success: false, reason: 'missing_channel'} with no cache lookup, no
\* remote fetch and nothing sent, whatever the client would have answered.
C15_MissingChannel ==
    (/\ dsp.pc = "done"
     /\ dsp.command.action.t = "string"
     /\ dsp.command.action.s \in ChannelActions
     /\ ~dsp.command.payload.channel_id
     /\ ~dsp.command.payload.forum_channel_id) =>
        /\ ~dsp.result.threw
        /\ dsp.result.ret = Failure("missing_channel")
        /\ dsp.result.invoked = dsp.command.action.s
        /\ dsp.result.fx = NoEffects

C15_WarRoomWithoutChannel ==
    /\ dsp.pc = "done"
    /\ dsp.command.action = JsString("WAR_ROOM_CREATE")
    /\ ~dsp.command.payload.forum_channel_id
    /\ ~dsp.command.payload.channel_id
    /\ dsp.w.cached = "forum"
    /\ dsp.result.ret = Failure("missing_channel")
    /\ dsp.result.fx = NoEffects

(***************************************************************************)
(* The worker fed with one-item batches of any command, the handlers       *)
(* meeting any client state.                                               *)
(***************************************************************************)
ItemFetchOutcomes ==
    {[ok |-> TRUE, err |-> ErrPlain, isArray |-> TRUE, data |-> <<c>>] :
        c \in DispatchCommands}

NextItem ==
    \/ (ctl = 0 /\ start)
    \/ Advance
    \/ poll
    \/ \E c \in Slots, o \in ApiOutcomes : flushPendingStatusUpdates(c, o)
    \/ \E c \in Slots, o \in ItemFetchOutcomes : fetchQueue(c, o)
    \/ \E c \in Slots, w \in DispatchWorlds : processItem(c, w)
    \/ \E c \in Slots, o \in ApiOutcomes : reportStatus(c, o)

SpecItem == Init /\ [][NextItem]_vars

\* C13: the status call for an item is issued only once its dispatch has
\* returned: while that call is pending the call completed last is the
\* dispatch of the same item, and every report in the history directly
\* follows the dispatch of its item.  The status sent is 'complete' exactly
\* when the value dispatch returned has a true success property, and
\* 'failed' otherwise.
C13_ReportAfterDispatch ==
    /\ [](/\ \A c \in InFlight :
                cyc[c].pc = "report" =>
                   LET item == cyc[c].items[cyc[c].i]
                   IN /\ last.op = "dispatch"
                      /\ last.idx = cyc[c].i
                      /\ last.id = item.id
                      /\ last.status = cyc[c].status
                      /\ calls[Len(calls)] =
                            Call("dispatch", cyc[c].i, item.id, cyc[c].status)
                      /\ cyc[c].status \in {"complete", "failed"}
                      /\ cyc[c].status = "complete" <=>
                            \/ last.res = "outcome"
                            \/ last.res = "command" /\ item.success
          /\ \A n \in 1..Len(calls) :
                calls[n].op = "report" =>
                   /\ n > 1
                   /\ calls[n - 1] =
                         Call("dispatch", calls[n].idx, calls[n].id, calls[n].status))
    /\ [][\A res \in {"ok", "net", "other"} : StatusCallReturns("report", res) =>
             /\ last.op = "dispatch"
             /\ last'.id = last.id
             /\ last'.idx = last.idx
             /\ last'.status = last.status]_vars

C13_ValidationFailureReportedFailed ==
    \E c \in InFlight :
       /\ cyc[c].pc = "report"
       /\ last.op = "dispatch"
       /\ last.res = "unsupported_action"
       /\ cyc[c].status = "failed"

\* C14: a poll cycle flushes the ledger once, before its fetch: the cycle
\* starts by retrying every record that is due, each once and in ledger
\* order, the fetch is issued only when the last of these calls has
\* returned, it is the only fetch of the cycle, and no dispatch or report
\* comes before it or flush call after it.
C14_FlushOnceBeforeFetch ==
    /\ [](/\ \A n \in 1..Len(calls) :
                /\ calls[n].op = "flush" =>
                      \A m \in 1..n : calls[m].op = "flush" /\ calls[m].idx = m
                /\ calls[n].op = "fetch" =>
                      \A m \in 1..Len(calls) :
                         /\ m < n => calls[m].op = "flush"
                         /\ m > n => calls[m].op \in {"skip", "dispatch", "report"}
          /\ \A c \in InFlight :
                /\ cyc[c].pc = "flush" =>
                      /\ cyc[c].k \in 1..Len(cyc[c].due)
                      /\ Len(calls) = cyc[c].k - 1
                /\ cyc[c].pc = "fetch" =>
                      \A n \in 1..Len(calls) : calls[n].op = "flush"
                /\ cyc[c].pc \in {"dispatch", "report"} =>
                      \E n \in 1..Len(calls) : calls[n].op = "fetch"
          /\ CycleEnded => \E n \in 1..Len(calls) : calls[n].op = "fetch")
    /\ [][/\ tick' = "run" =>
                LET due == SelectSeq(pendingStatusUpdates,
                                     LAMBDA r : r.nextAttemptAt <= now)
                IN \E c \in Slots :
                      /\ cyc[c].pc = "idle"
                      /\ cyc'[c].due = due
                      /\ cyc'[c].pc = IF Len(due) = 0 THEN "fetch" ELSE "flush"
          /\ \A c \in Slots :
                (cyc[c].pc = "flush" /\ cyc'[c] # cyc[c]) =>
                   /\ last'.op = "flush"
                   /\ last'.id = cyc[c].due[cyc[c].k].id
                   /\ IF cyc[c].k < Len(cyc[c].due)
                      THEN cyc'[c].pc = "flush" /\ cyc'[c].k = cyc[c].k + 1
                      ELSE cyc'[c].pc = "fetch"]_vars

C14_TwoRetriesThenFetch ==
    /\ CycleEnded
    /\ Len(calls) >= 3
    /\ calls[1].op = "flush"
    /\ calls[2].op = "flush"
    /\ calls[3].op = "fetch"

LedgerRecords(m) == {m[n] : n \in 1..Len(m)}

\* C16: a dispatch that fails is not retried: the return of a dispatch,
\* whatever its outcome, leaves the ledger as it is and is followed by the
\* report for that item, no item is dispatched twice in a cycle, and a
\* ledger record appears or changes only in a step in which a status call
\* for its id fails with a network-class error.
C16_DispatchFailureNotRetried ==
    /\ [](\A n, m \in 1..Len(calls) :
             (calls[n].op = "dispatch" /\ calls[m].op = "dispatch" /\ calls[n].idx = calls[m].idx)
                => n = m)
    /\ [][/\ \A c \in Slots :
                (cyc[c].pc = "dispatch" /\ cyc'[c] # cyc[c]) =>
                   /\ pendingStatusUpdates' = pendingStatusUpdates
                   /\ last'.op = "dispatch"
                   /\ cyc'[c].pc = "report"
                   /\ cyc'[c].i = cyc[c].i
          /\ \A r \in LedgerRecords(pendingStatusUpdates') \ LedgerRecords(pendingStatusUpdates) :
                /\ \/ StatusCallReturns("report", "net")
                   \/ StatusCallReturns("flush", "net")
                /\ r.id = last'.id
                /\ r.status = last'.status]_vars

C16_FailedDispatchLeavesLedgerEmpty ==
    /\ CycleEnded
    /\ last.op = "report"
    /\ last.status = "failed"
    /\ last.res = "ok"
    /\ \E n \in 1..Len(calls) : calls[n] = Call("dispatch", 1, 1, "failed")
    /\ pendingStatusUpdates = <<>>

\* C17: once a status call for an id - the report after a dispatch or a
\* retry from the ledger - has failed with an error that is not
\* network-class (an error response was received), the ledger holds no
\* record for that id, so that no later flush calls for it again.
C17_ApplicationFailureDropsUpdate ==
    (last.op \in {"report", "flush"} /\ last.res = "other") =>
        ~MapHas(pendingStatusUpdates, last.id)

(***************************************************************************)
(* The same worker with the progress the runtime gives it: time passes, a  *)
(* timeout that is due fires, and every awaited call settles (the HTTP     *)
(* client has a request timeout, part_009:16).                             *)
(***************************************************************************)
SpecLive ==
    /\ Init
    /\ [][NextItem]_vars
    /\ WF_vars(Advance)
    /\ WF_vars(poll)
    /\ WF_vars(\E c \in Slots, o \in ApiOutcomes : flushPendingStatusUpdates(c, o))
    /\ WF_vars(\E c \in Slots, o \in ItemFetchOutcomes : fetchQueue(c, o))
    /\ WF_vars(\E c \in Slots, w \in DispatchWorlds : processItem(c, w))
    /\ WF_vars(\E c \in Slots, o \in ApiOutcomes : reportStatus(c, o))

\* The record for id waits for a tick that will find it due.
AwaitsRetry(id) ==
    /\ MapHas(pendingStatusUpdates, id)
    /\ InFlight = {}
    /\ pollTimer.at >= MapGet(pendingStatusUpdates, id).nextAttemptAt
    /\ pollTimer.at <= MaxNow

\* C18: a status update in the ledger is retried without end: every cycle
\* retries every record that is due, whatever its attempt; a record changes
\* only by its attempt growing by one, with a next attempt at most
\* maxBackoffMs ahead; it leaves the ledger only when a retry succeeds or
\* fails with an error that is not network-class, and a retry that succeeds
\* removes it; and while ticks keep coming, a record that a coming tick
\* will find due is retried.
C18_RetriedIndefinitely ==
    /\ [][/\ tick' = "run" =>
                \A r \in LedgerRecords(pendingStatusUpdates) :
                   r.nextAttemptAt <= now =>
                      \E c \in Slots : \E k \in 1..Len(cyc'[c].due) : cyc'[c].due[k] = r
          /\ \A id \in LedgerIds(pendingStatusUpdates) :
                LET rec == MapGet(pendingStatusUpdates, id)
                IN IF MapHas(pendingStatusUpdates', id)
                   THEN LET new == MapGet(pendingStatusUpdates', id)
                        IN new # rec =>
                              /\ new.attempt = rec.attempt + 1
                              /\ new.nextAttemptAt > now
                              /\ new.nextAttemptAt <= now + maxBackoffMs
                   ELSE /\ \/ StatusCallReturns("flush", "ok")
                           \/ StatusCallReturns("flush", "other")
                        /\ last'.id = id
          /\ StatusCallReturns("flush", "ok") =>
                ~MapHas(pendingStatusUpdates', last'.id)]_vars
    /\ \A id \in 1..MaxId :
          AwaitsRetry(id) ~> (last.op = "flush" /\ last.id = id)

C18_ThirdAttemptStillRetried ==
    /\ now = MaxNow
    /\ last.op = "flush"
    /\ last.res = "net"
    /\ MapHas(pendingStatusUpdates, last.id)
    /\ MapGet(pendingStatusUpdates, last.id).attempt >= 3
    /\ MapGet(pendingStatusUpdates, last.id).nextAttemptAt > MaxNow

(***************************************************************************)
(* #chunkDiscordMessage(text, maxLength) on its own.  A string is the      *)
(* sequence of its characters; NL is the newline character.                *)
(***************************************************************************)
\* Longest text tried.
MaxText == 5
\* Largest maxLength tried.
MaxLimit == 3

NL == "\n"
Letters == {"a", "b"}
\* The texts the builders pass, lines 644 and 940: a header that begins with
\* a fixed character (lines 615 and 923), then the item lines joined by
\* newline, whose content comes from the payload.
Texts ==
    {t \in UNION {[1..n -> Letters \cup {NL}] : n \in 1..MaxText} : t[1] \in Letters}

\* text.split('\n'), line 749
RECURSIVE split(_)
split(text) ==
    IF \A i \in 1..Len(text) : text[i] # NL THEN <<SubSeq(text, 1, Len(text))>>
    ELSE LET i == CHOOSE j \in 1..Len(text) :
                     text[j] = NL /\ \A k \in 1..(j - 1) : text[k] # NL
         IN <<SubSeq(text, 1, i - 1)>> \o split(SubSeq(text, i + 1, Len(text)))

\* Variant: an over-long line cut down to its first piece.
slicesFirstOnly(line, maxLength) == <<SubSeq(line, 1, maxLength)>>

\* lines 768-770: line.slice(i, i + maxLength) for i = 0, maxLength, ...
RECURSIVE slices(_, _)
slices(line, maxLength) ==
    IF Len(line) = 0 THEN <<>>
    ELSE IF Len(line) <= maxLength THEN <<line>>
    ELSE <<SubSeq(line, 1, maxLength)>>
         \o slices(SubSeq(line, maxLength + 1, Len(line)), maxLength)

\* Variant: the newline between the chunk and the line is not counted.
RECURSIVE packLinesUncountedNewline(_, _, _, _)
packLinesUncountedNewline(lines, chunks, currentChunk, maxLength) ==
    IF Len(lines) = 0 THEN [chunks |-> chunks, currentChunk |-> currentChunk]
    ELSE LET line == Head(lines)
             rest == Tail(lines)
             withNewline == IF Len(currentChunk) > 0
                            THEN currentChunk \o <<NL>> \o line ELSE line
         IN IF Len(line) = 0
            THEN packLinesUncountedNewline(rest, chunks, currentChunk, maxLength)
            ELSE IF Len(currentChunk) + Len(line) <= maxLength
                 THEN packLinesUncountedNewline(rest, chunks, withNewline, maxLength)
            ELSE LET pushed == IF Len(currentChunk) > 0
                               THEN Append(chunks, currentChunk) ELSE chunks
                 IN IF Len(line) > maxLength
                    THEN packLinesUncountedNewline(rest, pushed \o slices(line, maxLength),
                                                   <<>>, maxLength)
                    ELSE packLinesUncountedNewline(rest, pushed, line, maxLength)

\* lines 753-776: the for loop over the lines still to handle, with chunks
\* and currentChunk as the loop has left them
RECURSIVE packLines(_, _, _, _)
packLines(lines, chunks, currentChunk, maxLength) ==
    IF Len(lines) = 0 THEN [chunks |-> chunks, currentChunk |-> currentChunk]
    ELSE LET line == Head(lines)
             rest == Tail(lines)
             withNewline == IF Len(currentChunk) > 0
                            THEN currentChunk \o <<NL>> \o line ELSE line
         IN IF Len(line) = 0
            THEN packLines(rest, chunks, currentChunk, maxLength)
            ELSE IF Len(withNewline) <= maxLength
                 THEN packLines(rest, chunks, withNewline, maxLength)
            ELSE LET pushed == IF Len(currentChunk) > 0
                               THEN Append(chunks, currentChunk) ELSE chunks
                 IN IF Len(line) > maxLength
                    THEN packLines(rest, pushed \o slices(line, maxLength), <<>>, maxLength)
                    ELSE packLines(rest, pushed, line, maxLength)

\* #chunkDiscordMessage(text, maxLength) for a string text, lines 744-783
chunkDiscordMessage(text, maxLength) ==
    IF Len(text) <= maxLength THEN <<SubSeq(text, 1, Len(text))>>
    ELSE LET r == packLines(split(text), <<>>, <<>>, maxLength)
         IN IF Len(r.currentChunk) > 0 THEN Append(r.chunks, r.currentChunk)
            ELSE r.chunks

InitChunk ==
    /\ WorkerInit
    /\ api = ApiIdle
    /\ dsp = DspIdle
    /\ rt = RtIdle
    /\ ck \in {[pc |-> "ready", text |-> t, maxLength |-> m, chunks |-> <<>>] :
                  t \in Texts, m \in 1..MaxLimit}

\* this.#chunkDiscordMessage(text, maxLength) is called and returns
chunkCall ==
    /\ ck.pc = "ready"
    /\ ck' = [ck EXCEPT !.pc = "done",
                        !.chunks = chunkDiscordMessage(ck.text, ck.maxLength)]
    /\ UNCHANGED <<workerVars, dsp, rt, api>>

NextChunk == chunkCall

SpecChunk == InitChunk /\ [][NextChunk]_vars

(***************************************************************************)
(* Properties of #chunkDiscordMessage.                                     *)
(***************************************************************************)
\* chunks.join('\n')
RECURSIVE JoinNL(_)
JoinNL(chunks) ==
    IF Len(chunks) = 0 THEN <<>>
    ELSE IF Len(chunks) = 1 THEN chunks[1]
    ELSE chunks[1] \o <<NL>> \o JoinNL(Tail(chunks))

RECURSIVE Flatten(_)
Flatten(seqs) == IF Len(seqs) = 0 THEN <<>> ELSE Head(seqs) \o Flatten(Tail(seqs))

\* The lines of the text that are not empty, in order.
NonEmptyLines(text) == SelectSeq(split(text), LAMBDA l : Len(l) > 0)

\* A line as it is emitted: whole when it fits the limit, else cut every
\* limit characters.
PiecesOf(line, limit) ==
    [k \in 1..((Len(line) + limit - 1) \div limit) |->
        SubSeq(line, (k - 1) * limit + 1, Min(k * limit, Len(line)))]

EmittedLines(text, limit) ==
    Flatten([n \in 1..Len(NonEmptyLines(text)) |-> PiecesOf(NonEmptyLines(text)[n], limit)])

\* C19 as written: for a text longer than the limit, the chunks joined by
\* newline have the lines of the text, each once and in order.
C19_JoinReproducesEveryLine ==
    (ck.pc = "done" /\ Len(ck.text) > ck.maxLength) =>
        split(JoinNL(ck.chunks)) = split(ck.text)

\* C19, amended: for a text longer than the limit, the chunks joined by
\* newline have, once and in order, the lines of the text that are not
\* empty, a line longer than the limit appearing as its consecutive pieces
\* of limit characters; a text with only empty lines gives no chunk.
C19_JoinReproducesNonEmptyLines ==
    (ck.pc = "done" /\ Len(ck.text) > ck.maxLength) =>
        IF Len(EmittedLines(ck.text, ck.maxLength)) = 0
        THEN Len(ck.chunks) = 0
        ELSE /\ Len(ck.chunks) > 0
             /\ split(JoinNL(ck.chunks)) = EmittedLines(ck.text, ck.maxLength)

C19_EmptyAndLongLine ==
    /\ ck.pc = "done"
    /\ ck.maxLength = 2
    /\ ck.text = <<"a", "b", "a", NL, NL>>
    /\ ck.chunks = << <<"a", "b">>, <<"a">> >>

\* For each emitted line, whether it is a piece of a line longer than the limit.
EmittedFlags(text, limit) ==
    Flatten([n \in 1..Len(NonEmptyLines(text)) |->
                [k \in 1..Len(PiecesOf(NonEmptyLines(text)[n], limit)) |->
                    Len(NonEmptyLines(text)[n]) > limit]])

\* The number of lines in the chunks before chunk k.
RECURSIVE LinesBefore(_, _)
LinesBefore(chunks, k) ==
    IF k <= 1 THEN 0 ELSE LinesBefore(chunks, k - 1) + Len(split(chunks[k - 1]))

\* C20: no chunk is empty or longer than the limit; a text within the limit
\* is the only chunk; for a longer text the chunks hold the emitted lines in
\* order, a line longer than the limit being cut into pieces of exactly the
\* limit, the last possibly shorter, each piece a chunk of its own, and the
\* other lines are packed greedily: a chunk that is not such a piece ends
\* before a line only if that line does not fit into it.
C20_ChunksBounded ==
    ck.pc = "done" =>
        /\ \A k \in 1..Len(ck.chunks) :
              Len(ck.chunks[k]) > 0 /\ Len(ck.chunks[k]) <= ck.maxLength
        /\ Len(ck.text) <= ck.maxLength => ck.chunks = <<ck.text>>
        /\ Len(ck.text) > ck.maxLength =>
              LET E == EmittedLines(ck.text, ck.maxLength)
                  F == EmittedFlags(ck.text, ck.maxLength)
              IN /\ Flatten([k \in 1..Len(ck.chunks) |-> split(ck.chunks[k])]) = E
                 /\ \A k \in 1..Len(ck.chunks) :
                       LET firstLine == LinesBefore(ck.chunks, k) + 1
                           lastLine == LinesBefore(ck.chunks, k + 1)
                       IN /\ (\E i \in firstLine..lastLine : F[i]) => firstLine = lastLine
                          /\ k < Len(ck.chunks) =>
                                \/ F[lastLine]
                                \/ Len(ck.chunks[k]) + 1 + Len(E[lastLine + 1]) > ck.maxLength

C20_LongLineSliced ==
    /\ ck.pc = "done"
    /\ ck.maxLength = 2
    /\ ck.text = <<"b", NL, "a", "a", "a">>
    /\ ck.chunks = << <<"b">>, <<"a", "a">>, <<"a">> >>

(***************************************************************************)
(* The worker as bot.js runs it, with the progress the runtime gives it:   *)
(* time passes, a timeout that is due fires, and every awaited call        *)
(* settles.                                                                *)
(***************************************************************************)
SpecFair ==
    /\ Init
    /\ [][Next]_vars
    /\ WF_vars(Advance)
    /\ WF_vars(poll)
    /\ WF_vars(\E c \in Slots, o \in ApiOutcomes : flushPendingStatusUpdates(c, o))
    /\ WF_vars(\E c \in Slots, o \in FetchOutcomes : fetchQueue(c, o))
    /\ WF_vars(\E c \in Slots, w \in WorkerWorlds : processItem(c, w))
    /\ WF_vars(\E c \in Slots, o \in ApiOutcomes : reportStatus(c, o))

\* C21: whatever the fetch, the status calls (of the flush or after a
\* dispatch) and the handlers do, no rejection leaves a poll cycle, every
\* cycle that is in flight ends, and the step that ends a cycle clears the
\* in-flight flag and leaves a timeout pending for the next tick, one
\* current poll interval ahead.
C21_CycleAlwaysFinishes ==
    /\ [](last.res # "rejected")
    /\ [][\A c \in Slots :
             (cyc[c].pc # "idle" /\ cyc'[c].pc = "idle") =>
                /\ ~polling'
                /\ pollTimer'.set
                /\ pollTimer'.at = now + currentPollIntervalMs']_vars
    /\ \A c \in Slots : (cyc[c].pc # "idle") ~> (cyc[c].pc = "idle" /\ ~polling)

C21_FailuresThenNextTick ==
    /\ CycleEnded
    /\ HasCall(calls, "flush", 1)
    /\ \E n \in 1..Len(calls) : calls[n].op = "dispatch" /\ calls[n].status = "failed"
    /\ last.op = "report"
    /\ last.res = "net"
    /\ ~polling
    /\ pollTimer.at = now + currentPollIntervalMs

(***************************************************************************)
(* Properties of start() and stop() under any caller.                      *)
(***************************************************************************)
\* A step that is a call of start() / of stop(): start() leaves
\* this.pollTimer set, stop() leaves it null.
StartCalled == ctl' = ctl + 1 /\ pollTimer'.set
StopCalled == ctl' = ctl + 1 /\ ~pollTimer'.set

\* C22: a call of start() made while a tick is pending or a cycle is in
\* flight schedules no timeout and starts no cycle: the pending timeouts and
\* the cycles are as they were.
C22_StartWhileStartedIsNoOp ==
    [][(StartCalled /\ (PendingTimers > 0 \/ InFlight # {})) =>
          /\ PendingTimers' = PendingTimers
          /\ pollTimer' = pollTimer
          /\ orphanTimers' = orphanTimers
          /\ cyc' = cyc]_vars

\* C23: a call of stop() made while a tick is pending and no cycle is in
\* flight leaves no timeout pending, so that no cycle begins until start()
\* is called again; and a call of start() made after it, with nothing
\* pending, schedules a tick at once.
C23_StopCancelsPendingTick ==
    [][/\ (StopCalled /\ PendingTimers > 0 /\ InFlight = {}) => PendingTimers' = 0
       /\ (StartCalled /\ PendingTimers = 0 /\ InFlight = {}) =>
             (pollTimer'.at = now /\ PendingTimers' = 1)]_vars

(***************************************************************************)
(* Properties of #isNetworkError, as the fetch and the status calls use    *)
(* it.                                                                     *)
(***************************************************************************)
\* This step treats the failure of the fetch as network-class: the backoff
\* grows by one attempt.
FetchBacksOff == backoffAttempts' = backoffAttempts + 1 /\ netFails' = netFails + 1
\* This step treats the failure of a status call as network-class: the
\* ledger gets a record for the id, due later.
StatusEnqueued ==
    /\ pendingStatusUpdates' # pendingStatusUpdates
    /\ MapHas(pendingStatusUpdates', last'.id)
    /\ MapGet(pendingStatusUpdates', last'.id).nextAttemptAt > now

MaxMessages == 2
\* Platform sends after the first whose outcome is chosen.
MaxLater == 3

RegisteredCommand(action, payload) ==
    [id |-> 1, action |-> JsString(action), success |-> FALSE, payload |-> payload]

ValidationCases ==
    {[command |-> RegisteredCommand(a, p), w |-> [WorldOk EXCEPT !.cached = c]] :
        a \in RegisteredActions,
        p \in [channel_id : BOOLEAN, forum_channel_id : BOOLEAN, discord_id : BOOLEAN,
               nations : BOOLEAN, nation : BOOLEAN, discord_user_id : BOOLEAN,
               target : BOOLEAN, mentionMessages : {1}, assignmentMessages : {1},
               beigeMessages : {1}],
        c \in {"text", "forum"}}

RoleIds == {EveryoneRole, "member", "officer"}

ResolutionWorlds ==
    {[WorldOk EXCEPT !.cached = c, !.fetched = f] :
        c \in ChannelKinds \cup {"none"}, f \in ChannelKinds \cup {"none", "throw"}}
    \cup {[WorldOk EXCEPT !.guild = g, !.member = m, !.roles = r, !.remove = d] :
             g \in {"cached", "fetched", "none", "throw"},
             m \in {"ok", "throw"}, r \in SUBSET RoleIds, d \in {"ok", "throw"}}

ResolutionCases ==
    {[command |-> RegisteredCommand(a, Payload(TRUE)), w |-> w] :
        a \in RegisteredActions, w \in ResolutionWorlds}

SendOutcomes == {"ok", "throw", "limited"}

DeliveryWorlds ==
    {[WorldOk EXCEPT !.cached = c, !.send = o, !.later = l] :
        c \in {"text", "forum"}, o \in SendOutcomes,
        l \in UNION {[1..n -> SendOutcomes] : n \in 0..MaxLater}}

DeliveryCases ==
    {[command |-> RegisteredCommand(a, [Payload(TRUE) EXCEPT !.mentionMessages = m,
                                                             !.assignmentMessages = n]),
      w |-> w] :
        a \in RegisteredActions, m \in 1..MaxMessages, n \in 1..MaxMessages,
        w \in DeliveryWorlds}

\* Beige alerts of either form, of both and of neither.
BeigeCases ==
    {[command |-> RegisteredCommand("BEIGE_ALERT",
                     [Payload(TRUE) EXCEPT !.nations = l, !.nation = n,
                                           !.beigeMessages = m]),
      w |-> w] :
        l \in BOOLEAN, n \in BOOLEAN, m \in 1..MaxMessages,
        w \in {x \in DeliveryWorlds : x.cached = "text"}}

InitHandlers ==
    /\ WorkerInit
    /\ api = ApiIdle
    /\ rt = RtIdle
    /\ ck = CkIdle
    /\ dsp \in {[pc |-> "ready", command |-> x.command, w |-> x.w, result |-> NoResult] :
                   x \in ValidationCases \cup ResolutionCases \cup DeliveryCases
                         \cup BeigeCases}

SpecHandlers == InitHandlers /\ [][NextDispatch]_vars

(***************************************************************************)
(* Properties of the values dispatch returns and of the handlers.          *)
(***************************************************************************)
\* The reasons of the taxonomy: validation, resolution, delivery, fault.
ReasonTaxonomy ==
    {"invalid_action", "unsupported_action", "missing_channel", "missing_discord_id",
     "channel_unavailable", "guild_unavailable", "member_unavailable",
     "discord_send_failed", "role_removal_failed", "handler_error"}

\* C25: dispatch never rejects and what it resolves to is a DispatchOutcome:
\* an object whose success is a boolean, without a reason when success is
\* true and with a reason of the taxonomy when success is false.
C25_DispatchReturnsOutcome ==
    dsp.pc = "done" =>
        /\ ~dsp.result.threw
        /\ dsp.result.ret.kind = "outcome"
        /\ dsp.result.ret.success \in BOOLEAN
        /\ dsp.result.ret.success => dsp.result.ret.reason = "none"
        /\ ~dsp.result.ret.success => dsp.result.ret.reason \in ReasonTaxonomy

\* The handler of the dispatched command got as far as sending.
Delivered ==
    /\ dsp.pc = "done"
    /\ dsp.command.action.t = "string"
    /\ dsp.command.action.s \in RegisteredActions
    /\ dsp.result.fx.sends >= 1

\* The number of sends, up to the n-th, made for the step of the n-th.
AttemptOf(log, n) == Cardinality({m \in 1..n : log[m] = log[n]})

RequiredFieldMissing(command) ==
    LET p == command.payload
        a == command.action.s
    IN CASE a \in {"WAR_ALERT", "ALLIANCE_DEPARTURE"} -> ~p.channel_id
         [] a = "INACTIVITY_ALERT" -> ~p.channel_id \/ ~p.discord_user_id
         [] a = "ALLIANCE_ROLE_REMOVAL" -> ~p.discord_id
         [] a = "BEIGE_ALERT" -> ~p.channel_id \/ (~p.nations /\ ~p.nation)
         [] OTHER -> ~(p.forum_channel_id \/ p.channel_id) \/ ~p.target

\* The one field a handler tests: the id of its destination.
DestinationId(command) ==
    LET p == command.payload
        a == command.action.s
    IN CASE a = "ALLIANCE_ROLE_REMOVAL" -> p.discord_id
         [] a = "WAR_ROOM_CREATE" -> p.forum_channel_id \/ p.channel_id
         [] OTHER -> p.channel_id

MissingReasons == {"missing_channel", "missing_discord_id"}

\* dispatch has run the handler of a registered action.
Handled ==
    /\ dsp.pc = "done"
    /\ dsp.command.action.t = "string"
    /\ dsp.command.action.s \in RegisteredActions

\* C27 as written: with a required field of its action absent, a handler
\* returns a missing_* failure, resolves no destination and sends nothing.
C27_RequiredFieldsValidated ==
    (Handled /\ RequiredFieldMissing(dsp.command)) =>
        /\ ~dsp.result.ret.success
        /\ dsp.result.ret.reason \in MissingReasons
        /\ dsp.result.fx = NoEffects

\* C27, amended: a handler validates one field, the id of its destination.
\* Without it the outcome is missing_channel (missing_discord_id for a role
\* removal) with nothing resolved and nothing sent.  With it the handler
\* goes on to resolve the destination whatever else is absent: an
\* inactivity alert without the user id is sent without the mention, a war
\* room without the target snapshot is created with a briefing made of
\* defaults, and a beige alert with neither nations nor nation returns
\* invalid_payload once the channel is resolved, nothing sent.
C27_OnlyDestinationValidated ==
    Handled =>
        LET p == dsp.command.payload
            a == dsp.command.action.s
            ret == dsp.result.ret
            fx == dsp.result.fx
            allSendsOk == dsp.w.build = "ok" /\ dsp.w.send = "ok" /\ dsp.w.later = <<>>
        IN /\ ~DestinationId(dsp.command) =>
                 /\ ret = Failure(IF a = "ALLIANCE_ROLE_REMOVAL"
                                  THEN "missing_discord_id" ELSE "missing_channel")
                 /\ fx = NoEffects
           /\ DestinationId(dsp.command) =>
                 /\ ret.reason \notin MissingReasons
                 /\ fx.lookups = 1 \/ (a = "ALLIANCE_ROLE_REMOVAL" /\ ~dsp.w.guildId)
           /\ (/\ a = "INACTIVITY_ALERT" /\ p.channel_id /\ ~p.discord_user_id
               /\ resolveChannel(dsp.w).channel # "none" /\ allSendsOk) =>
                 /\ ret = Success
                 /\ fx.log = <<Sent("send", 1, FALSE)>>
           /\ (/\ a = "WAR_ROOM_CREATE" /\ DestinationId(dsp.command) /\ ~p.target
               /\ resolveAnyChannel(dsp.w).channel = "forum" /\ allSendsOk) =>
                 /\ ret = Success
                 /\ fx.sends = 1 + p.mentionMessages + p.assignmentMessages
                 /\ fx.log[1] = Sent("create", 1, FALSE)
           /\ (/\ a = "BEIGE_ALERT" /\ p.channel_id /\ ~p.nations /\ ~p.nation
               /\ resolveChannel(dsp.w).channel # "none") =>
                 /\ ret = Failure("invalid_payload")
                 /\ fx.lookups = 1
                 /\ fx.sends = 0

C27_WarRoomWithoutTargetCreated ==
    /\ Handled
    /\ dsp.command.action.s = "WAR_ROOM_CREATE"
    /\ dsp.command.payload.forum_channel_id
    /\ ~dsp.command.payload.target
    /\ ~dsp.command.payload.discord_user_id
    /\ dsp.w.cached = "forum"
    /\ dsp.result.ret = Success
    /\ dsp.result.fx.log = <<Sent("create", 1, FALSE), Sent("mention", 1, TRUE),
                             Sent("assignment", 1, TRUE)>>

\* The handlers that send to a text channel.
TextChannelActions == {"WAR_ALERT", "ALLIANCE_DEPARTURE", "INACTIVITY_ALERT", "BEIGE_ALERT"}

\* The handler ran, and the payload names the destination.
HandledWithDestination == Handled /\ DestinationId(dsp.command)

\* The outcome when the destination cannot be had: a soft failure with
\* nothing sent and nothing removed.
Unavailable(reason) ==
    /\ dsp.result.ret = Failure(reason)
    /\ ~dsp.result.threw
    /\ dsp.result.fx.sends = 0
    /\ dsp.result.fx.removals = 0

\* C28 as written: what resolution yields is a destination of the right kind
\* or null: a text channel for the alerts, a forum for the war room.
C28_WrongKindYieldsNull ==
    HandledWithDestination =>
        /\ dsp.command.action.s \in TextChannelActions =>
              resolveChannel(dsp.w).channel \in {"text", "none"}
        /\ dsp.command.action.s = "WAR_ROOM_CREATE" =>
              resolveAnyChannel(dsp.w).channel \in {"forum", "none"}

\* C28, amended: resolution looks in the cache first and never throws.  For
\* the alerts a cached text channel is returned without a fetch, anything
\* else in the cache leads to one fetch, and a failed fetch or a fetched
\* channel that is not a text channel yields null.  For the war room any
\* cached channel is returned without a fetch, whatever its kind, a cache
\* miss leads to one fetch whose result is returned whatever its kind, and
\* a failed fetch yields null; the handler itself rejects a channel that is
\* not a forum.  Without a guild id the guild resolver yields null without a
\* lookup.  Each of these ends in channel_unavailable or guild_unavailable
\* with nothing sent, never in an exception or handler_error.
C28_ResolutionCacheFirst ==
    HandledWithDestination =>
        LET a == dsp.command.action.s
            w == dsp.w
            fx == dsp.result.fx
        IN /\ a \in TextChannelActions =>
                 /\ fx.lookups = 1
                 /\ fx.fetches = IF isTextBased(w.cached) THEN 0 ELSE 1
                 /\ resolveChannel(w).channel =
                       IF isTextBased(w.cached) THEN w.cached
                       ELSE IF isTextBased(w.fetched) THEN w.fetched ELSE "none"
                 /\ resolveChannel(w).channel = "none" => Unavailable("channel_unavailable")
           /\ a = "WAR_ROOM_CREATE" =>
                 /\ fx.lookups = 1
                 /\ fx.fetches = IF w.cached # "none" THEN 0 ELSE 1
                 /\ resolveAnyChannel(w).channel =
                       IF w.cached # "none" THEN w.cached
                       ELSE IF w.fetched = "throw" THEN "none" ELSE w.fetched
                 /\ ~isThreadOnly(resolveAnyChannel(w).channel) =>
                       Unavailable("channel_unavailable")
           /\ a = "ALLIANCE_ROLE_REMOVAL" =>
                 /\ fx.lookups = IF w.guildId THEN 1 ELSE 0
                 /\ fx.fetches = IF w.guildId /\ w.guild # "cached" THEN 1 ELSE 0
                 /\ ~resolveGuild(w).guild => Unavailable("guild_unavailable")

C28_CachedTextChannelForWarRoom ==
    /\ HandledWithDestination
    /\ dsp.command.action.s = "WAR_ROOM_CREATE"
    /\ dsp.w.cached = "text"
    /\ dsp.w.fetched = "forum"
    /\ dsp.result.fx.lookups = 1
    /\ dsp.result.fx.fetches = 0
    /\ Unavailable("channel_unavailable")

\* The place of a send of the war room in the order of its steps: the
\* thread, then the mention messages, then the assignment messages.
StepRank(e, payload) ==
    CASE e.op = "create" -> 0
      [] e.op = "mention" -> e.idx
      [] OTHER -> payload.mentionMessages + e.idx

\* C29: the sends of the war-room handler follow the fixed order: first the
\* thread with the briefing, then the mention messages in order, then the
\* assignment messages in order, none skipped.  Each goes through the
\* retrier: a send is repeated only after a rate-limit rejection and at most
\* defaultMaxAttempts times, and the next step follows only a send that
\* succeeded.  The handler succeeds when the last step's send succeeded; when
\* a send is rejected for good, no later step is attempted and the outcome
\* is discord_send_failed.
C29_WarRoomStepsInOrder ==
    (/\ HandledWithDestination
     /\ dsp.command.action.s = "WAR_ROOM_CREATE"
     /\ isThreadOnly(resolveAnyChannel(dsp.w).channel)
     /\ dsp.w.build = "ok") =>
        LET p == dsp.command.payload
            log == dsp.result.fx.log
            n == Len(log)
            lastStep == p.mentionMessages + p.assignmentMessages
            rank(i) == StepRank(log[i], p)
            attempts(i) == Cardinality({j \in 1..n : rank(j) = rank(i)})
        IN /\ n >= 1
           /\ dsp.result.fx.sends = n
           /\ log[1] = Sent("create", 1, p.target)
           /\ \A i \in 1..n :
                 /\ log[i].op \in {"create", "mention", "assignment"}
                 /\ rank(i) \in 0..lastStep
                 /\ attempts(i) <= defaultMaxAttempts
           /\ \A i \in 1..(n - 1) :
                 \/ rank(i + 1) = rank(i) /\ platformCall(dsp.w, i) = "limited"
                 \/ rank(i + 1) = rank(i) + 1 /\ platformCall(dsp.w, i) = "ok"
           /\ IF platformCall(dsp.w, n) = "ok"
              THEN rank(n) = lastStep /\ dsp.result.ret = Success
              ELSE /\ dsp.result.ret = Failure("discord_send_failed")
                   /\ \/ platformCall(dsp.w, n) = "throw"
                      \/ attempts(n) = defaultMaxAttempts

C29_MentionRejectedAfterRetry ==
    /\ HandledWithDestination
    /\ dsp.command.action.s = "WAR_ROOM_CREATE"
    /\ dsp.w.send = "ok"
    /\ dsp.w.later = <<"limited", "throw">>
    /\ dsp.command.payload.mentionMessages = 2
    /\ dsp.result.fx.log = <<Sent("create", 1, TRUE), Sent("mention", 1, TRUE),
                             Sent("mention", 1, TRUE)>>
    /\ dsp.result.ret = Failure("discord_send_failed")

\* C30: for a role-removal command that names the member, in a guild the
\* client has or can fetch: a failed member fetch gives member_unavailable
\* without a removal; a member with no role but @everyone gives success
\* without a removal; otherwise one bulk removal of exactly the member's
\* roles other than @everyone, which gives success, or role_removal_failed
\* when it is rejected.
C30_RemovesAllButEveryone ==
    (/\ HandledWithDestination
     /\ dsp.command.action.s = "ALLIANCE_ROLE_REMOVAL"
     /\ dsp.w.guild \in {"cached", "fetched"}) =>
        LET w == dsp.w
            ret == dsp.result.ret
            fx == dsp.result.fx
            others == w.roles \ {EveryoneRole}
        IN /\ w.member = "throw" =>
                 ret = Failure("member_unavailable") /\ fx.removals = 0
           /\ (w.member = "ok" /\ others = {}) =>
                 ret = Success /\ fx.removals = 0
           /\ (w.member = "ok" /\ others # {}) =>
                 /\ fx.removals = 1
                 /\ fx.removed = others
                 /\ ret = IF w.remove = "throw" THEN Failure("role_removal_failed")
                          ELSE Success

\* The beige handler reached its try block, artifacts build and every send
\* is accepted.
BeigeDelivers ==
    /\ HandledWithDestination
    /\ dsp.command.action.s = "BEIGE_ALERT"
    /\ resolveChannel(dsp.w).channel # "none"
    /\ dsp.w.build = "ok"
    /\ dsp.w.send = "ok"
    /\ \A n \in 1..Len(dsp.w.later) : dsp.w.later[n] = "ok"

\* C31: the beige handler serves one of two forms.  A non-empty list of
\* nations, with or without a single nation beside it, goes out as the
\* plain-text messages of the turn summary, one send each in order, at least
\* one, and no embed.  Without a list a single nation goes out as exactly
\* one embed.  With neither nothing is sent and the outcome is a failure.
\* Whatever the sends' outcomes, the log of a list holds only plain-text
\* messages and the log of a single nation only the embed.
C31_BeigeBimodal ==
    (/\ HandledWithDestination
     /\ dsp.command.action.s = "BEIGE_ALERT"
     /\ resolveChannel(dsp.w).channel # "none") =>
        LET p == dsp.command.payload
            log == dsp.result.fx.log
            ret == dsp.result.ret
        IN /\ p.nations =>
                 /\ \A n \in 1..Len(log) : log[n] = Sent("content", n, TRUE)
                 /\ Len(log) <= p.beigeMessages
                 /\ BeigeDelivers =>
                       /\ Len(log) = p.beigeMessages
                       /\ Len(log) >= 1
                       /\ ret = Success
           /\ (~p.nations /\ p.nation) =>
                 /\ \A n \in 1..Len(log) : log[n] = Sent("embed", 1, TRUE)
                 /\ Len(log) <= 1
                 /\ BeigeDelivers => (Len(log) = 1 /\ ret = Success)
           /\ (~p.nations /\ ~p.nation) =>
                 /\ log = <<>>
                 /\ dsp.result.fx.sends = 0
                 /\ ~ret.success
           /\ dsp.result.fx.sends = Len(log)

C31_ListWinsOverNation ==
    /\ BeigeDelivers
    /\ dsp.command.payload.nations
    /\ dsp.command.payload.nation
    /\ dsp.command.payload.beigeMessages = 2
    /\ dsp.result.fx.log = <<Sent("content", 1, TRUE), Sent("content", 2, TRUE)>>
    /\ dsp.result.ret = Success

(***************************************************************************)
(* Properties of the end of a poll cycle.                                  *)
(***************************************************************************)
\* A step ends a poll cycle: the finally block of #poll runs.
CycleEnds == polling /\ ~polling'

\* C32: the step that ends a poll cycle schedules the next tick after the
\* value currentPollIntervalMs has once the step is done.  When the step is
\* the return of a fetch that failed with a network-class error, that value
\* is the increased interval min(pollIntervalMs * 2^attempts, maxBackoffMs)
\* for the incremented attempt count; when the cycle's fetch succeeded it is
\* the base interval.
C32_NextTickAfterUpdatedInterval ==
    [][CycleEnds =>
          /\ pollTimer'.set
          /\ pollTimer'.at = now' + currentPollIntervalMs'
          /\ (last'.op = "fetch" /\ last'.res = "net") =>
                /\ backoffAttempts' = backoffAttempts + 1
                /\ currentPollIntervalMs' =
                      Min(pollIntervalMs * Pow2(backoffAttempts + 1), maxBackoffMs)
                /\ currentPollIntervalMs' > pollIntervalMs
          /\ ((last'.op = "fetch" /\ last'.res = "ok") \/ last'.op = "report") =>
                /\ backoffAttempts' = 0
                /\ currentPollIntervalMs' = pollIntervalMs]_vars

C32_TickDelayedAfterNetworkFailure ==
    /\ ~polling
    /\ last.op = "fetch"
    /\ last.res = "net"
    /\ backoffAttempts = 1
    /\ currentPollIntervalMs = 2 * pollIntervalMs
    /\ pollTimer.at = now + 2 * pollIntervalMs

(***************************************************************************)
(* Properties of a flush of the status retry ledger.                       *)
(***************************************************************************)
\* The ids of a sequence of ledger records.
IdsOf(records) == {records[n].id : n \in 1..Len(records)}

\* C33: a poll cycle begins its flush with exactly the records whose
\* nextAttemptAt is at most Date.now(), in ledger order, and goes straight
\* to the fetch, without a status call, when there is none (an empty ledger
\* included).  While the flush runs, each status call that returns is for a
\* record of that selection, and every record of the ledger outside the
\* selection is still in the ledger after the step, with the same status,
\* attempt and nextAttemptAt, also when it has become due in the meantime.
C33_FlushOnlyDueRecords ==
    [][/\ tick' = "run" =>
            \E c \in Slots :
               /\ cyc[c].pc = "idle"
               /\ cyc'[c].pc \in {"flush", "fetch"}
               /\ cyc'[c].due =
                     SelectSeq(pendingStatusUpdates, LAMBDA r : r.nextAttemptAt <= now)
               /\ cyc'[c].pc = "fetch" <=> cyc'[c].due = <<>>
               /\ calls' = <<>>
               /\ pendingStatusUpdates' = pendingStatusUpdates
       /\ \A c \in Slots :
             cyc[c].pc = "flush" =>
                /\ cyc[c].due # <<>>
                /\ (last' # last /\ last'.op = "flush") => last'.id \in IdsOf(cyc[c].due)
                /\ \A n \in 1..Len(pendingStatusUpdates) :
                      pendingStatusUpdates[n].id \notin IdsOf(cyc[c].due) =>
                         \E m \in 1..Len(pendingStatusUpdates') :
                            pendingStatusUpdates'[m] = pendingStatusUpdates[n]
                /\ cyc'[c].pc = "flush" => cyc'[c].due = cyc[c].due]_vars

C33_NotDueRecordLeftAlone ==
    /\ last.op = "flush"
    /\ last.id = 2
    /\ MapHas(pendingStatusUpdates, 1)
    /\ MapGet(pendingStatusUpdates, 1).attempt = 2
    /\ MapGet(pendingStatusUpdates, 1).nextAttemptAt > now
    /\ \A n \in 1..Len(calls) : calls[n].id # 1

(***************************************************************************)
(* Properties of the return of a fetch.                                    *)
(***************************************************************************)
\* The awaited fetch of the cycle in slot c returns in this step.
FetchReturns(c) == cyc[c].pc = "fetch" /\ cyc'[c].pc # "fetch"

\* The calls of the cycle so far are status retries of the flush and the fetch.
OnlyFlushAndFetch(log) == \A n \in 1..Len(log) : log[n].op \in {"flush", "fetch"}

\* C34: when the fetch fails with a network-class error the cycle ends in
\* the same step: no item is dispatched, no status is reported for an item
\* and the ledger is as it was.  When the fetch succeeds with no item the
\* cycle ends likewise, with nothing dispatched and the ledger as it was,
\* and the backoff is reset: zero attempts, the base interval.
C34_NothingProcessedOnFailureOrEmptyBatch ==
    [][\A c \in Slots :
          (FetchReturns(c) /\ last'.op = "fetch") =>
             /\ last'.res = "net" =>
                   /\ cyc'[c].pc = "idle"
                   /\ ~polling'
                   /\ OnlyFlushAndFetch(calls')
                   /\ pendingStatusUpdates' = pendingStatusUpdates
                   /\ backoffAttempts' = backoffAttempts + 1
             /\ (last'.res = "ok" /\ last'.idx = 0) =>
                   /\ cyc'[c].pc = "idle"
                   /\ ~polling'
                   /\ OnlyFlushAndFetch(calls')
                   /\ pendingStatusUpdates' = pendingStatusUpdates
                   /\ backoffAttempts' = 0
                   /\ currentPollIntervalMs' = pollIntervalMs
                   /\ pollTimer'.at = now + pollIntervalMs]_vars

C34_EmptyBatchKeepsLedger ==
    /\ ~polling
    /\ last.op = "fetch"
    /\ last.res = "ok"
    /\ last.idx = 0
    /\ Len(pendingStatusUpdates) = 2
    /\ backoffAttempts = 0
    /\ currentPollIntervalMs = pollIntervalMs
    /\ OnlyFlushAndFetch(calls)

(***************************************************************************)
(* Properties of stop() and of the poll timers.                            *)
(***************************************************************************)
\* C35: while the worker is stopped (this.pollTimer is null: stop() has
\* returned, and start() has not been called since) no poll cycle begins,
\* and a cycle that was in flight at the stop ends without scheduling a
\* tick: the timers are as they were.
C35_NoCycleAfterStop ==
    [][~pollTimer.set =>
          /\ tick' # "run"
          /\ CycleEnds => (pollTimer' = pollTimer /\ orphanTimers' = orphanTimers)]_vars

\* C36: at every moment at most one poll timeout is pending.
C36_AtMostOneTimerPending == PendingTimers <= 1

\* The fetch is rejected with an HTTP error response.
HttpErrorFetch == [ok |-> FALSE, err |-> ErrHttp, isArray |-> FALSE, data |-> <<>>]

\* C37: a fetch that fails with an HTTP error response ends the cycle with
\* nothing dispatched and with backoffAttempts and currentPollIntervalMs as
\* they were before it.
C37_ApplicationFailureKeepsBackoff ==
    [][\A c \in Slots :
          fetchQueue(c, HttpErrorFetch) =>
             /\ cyc'[c].pc = "idle"
             /\ OnlyFlushAndFetch(calls')
             /\ backoffAttempts' = backoffAttempts
             /\ currentPollIntervalMs' = currentPollIntervalMs]_vars

\* C38: when the status call made after the dispatch of an item succeeds
\* and the ledger held a record for the item's id, the ledger holds no
\* record for that id after the step.
C38_SuccessfulReportClearsRecord ==
    [][\A c \in Slots :
          (/\ cyc[c].pc = "report"
           /\ MapHas(pendingStatusUpdates, cyc[c].items[cyc[c].i].id)
           /\ reportStatus(c, Resolved)) =>
             ~MapHas(pendingStatusUpdates', cyc[c].items[cyc[c].i].id)]_vars

\* C39: while a flush runs, the status calls made so far are the retries of
\* the first records of the selection the flush began with, one call per
\* record, in order, each returned before the next is made; the selection
\* holds no id twice and does not change during the flush, so a record that
\* a failed retry puts back in the ledger is not retried again in the same
\* flush, also when it falls due before the flush ends; the flush ends when
\* one call has been made for every record of the selection.
C39_OneRetryPerDueRecord ==
    [][\A c \in Slots :
          cyc[c].pc = "flush" =>
             LET due == cyc[c].due
                 k == cyc[c].k
             IN /\ k \in 1..Len(due)
                /\ Len(calls) = k - 1
                /\ \A n \in 1..Len(calls) :
                      calls[n] = Call("flush", n, due[n].id, due[n].status)
                /\ \A m, n \in 1..Len(due) : m # n => due[m].id # due[n].id
                /\ cyc'[c] # cyc[c] =>
                      /\ calls' = Append(calls, Call("flush", k, due[k].id, due[k].status))
                      /\ IF k < Len(due)
                         THEN /\ cyc'[c].pc = "flush"
                              /\ cyc'[c].due = due
                              /\ cyc'[c].k = k + 1
                         ELSE /\ cyc'[c].pc = "fetch"
                              /\ Len(calls') = Len(due)]_vars

C39_RequeuedRecordDueAgain ==
    \E c \in Slots :
       /\ cyc[c].pc = "flush"
       /\ cyc[c].k = 2
       /\ calls = <<Call("flush", 1, cyc[c].due[1].id, cyc[c].due[1].status)>>
       /\ MapHas(pendingStatusUpdates, cyc[c].due[1].id)
       /\ MapGet(pendingStatusUpdates, cyc[c].due[1].id).attempt = 2
       /\ MapGet(pendingStatusUpdates, cyc[c].due[1].id).nextAttemptAt <= now

(***************************************************************************)
(* ApiService.request(options) on its own: one call, made by               *)
(* fetchDiscordQueue or by updateDiscordQueueStatus, on the service as     *)
(* bot.js constructs it (no maxRetries argument).  api.attempts counts the *)
(* transport attempts (this.http.request), api.delays holds the durations  *)
(* of the waits, api.errs the errors the failed attempts threw.            *)
(***************************************************************************)
\* constructor, part_009:16: maxRetries = 3
defaultMaxRetries == 3
\* #backoffDuration, part_009:204: const base = 500
backoffBase == 500

\* The bodies of a response.
ResponseData == {"empty", "items"}
\* The methods of the service that the queue worker calls.
ApiCallers == {"fetchDiscordQueue", "updateDiscordQueueStatus"}

\* The outcome of one this.http.request(options).
TransportOutcomes ==
    {[ok |-> TRUE, err |-> ErrPlain, data |-> d] : d \in ResponseData}
    \cup {[ok |-> FALSE, err |-> e, data |-> "none"] : e \in Errors}

\* Variant: the same wait after every attempt.
backoffDurationFixed(attempt) == backoffBase

\* #backoffDuration(attempt), part_009:202-206
backoffDuration(attempt) == backoffBase * Pow2(attempt - 1)

InitApi ==
    /\ WorkerInit
    /\ dsp = DspIdle
    /\ rt = RtIdle
    /\ ck = CkIdle
    /\ api \in {[pc |-> "called", caller |-> m, maxRetries |-> defaultMaxRetries,
                 attempt |-> 0, attempts |-> 0, delays |-> <<>>, errs |-> <<>>,
                 result |-> "none", data |-> "none", thrown |-> ErrPlain] :
                   m \in ApiCallers}

\* part_009:40-43: the call enters the loop and makes the first transport
\* attempt, or, with maxRetries < 1, falls through to return undefined
request ==
    /\ api.pc = "called"
    /\ api' = IF 1 <= api.maxRetries
              THEN [api EXCEPT !.pc = "http", !.attempt = 1, !.attempts = 1]
              ELSE [api EXCEPT !.pc = "done", !.result = "undefined"]
    /\ UNCHANGED <<workerVars, dsp, rt, ck>>

\* part_009:43-57: the awaited this.http.request settles with outcome o
httpRequestSettles(o) ==
    /\ api.pc = "http"
    /\ api' = IF o.ok
              THEN [api EXCEPT !.pc = "done", !.result = "data", !.data = o.data]
              ELSE IF api.attempt = api.maxRetries
                   THEN [api EXCEPT !.pc = "done", !.result = "thrown",
                                    !.thrown = o.err, !.errs = Append(@, o.err)]
              ELSE [api EXCEPT !.pc = "delay", !.errs = Append(@, o.err),
                               !.delays = Append(@, backoffDuration(api.attempt))]
    /\ UNCHANGED <<workerVars, dsp, rt, ck>>

\* part_009:57, 41-43, 62: the #delay ends and the loop makes the next
\* attempt, or leaves the loop when none is left and returns undefined
delayElapses ==
    /\ api.pc = "delay"
    /\ api' = IF api.attempt + 1 <= api.maxRetries
              THEN [api EXCEPT !.pc = "http", !.attempt = @ + 1, !.attempts = @ + 1]
              ELSE [api EXCEPT !.pc = "done", !.attempt = @ + 1, !.result = "undefined"]
    /\ UNCHANGED <<workerVars, dsp, rt, ck>>

NextApi ==
    \/ request
    \/ \E o \in TransportOutcomes : httpRequestSettles(o)
    \/ delayElapses

SpecApi == InitApi /\ [][NextApi]_vars

====
